---- MODULE Spec2Model ----
(***************************************************************************)
(* Model of ProbableBook: the order-book client (fetch_book), the          *)
(* best-level extractor (get_best_ask_details / get_best_bid_details),     *)
(* the market processor (process_market) and the scan cycle (run_fetcher)  *)
(* of src/probable_orderbook.py.                                           *)
(*                                                                         *)
(* Decimal numbers are modelled by their value: an integer coefficient in  *)
(* a power-of-ten unit (prices in 1/10000, sizes in 1, notionals in        *)
(* 1/10000), kept in two limbs of five digits so that coefficients of      *)
(* more than ten digits - where the decimal context rounds - can be        *)
(* represented.                                                            *)
(***************************************************************************)
EXTENDS Integers, Sequences, FiniteSets, TLC

VARIABLES
  ex_book,       \* extraction: the order book handed to the extractor
  ex_ask,        \* extraction: result of get_best_ask_details(ex_book)
  ex_bid,        \* extraction: result of get_best_bid_details(ex_book)
  fb,            \* fetch_book: the locals of one call (attempt, delay, ...)
  fb_log,        \* fetch_book: the HTTP outcomes of the attempts made so far
  sc_markets,    \* run_fetcher: markets, the list discovery returned
  sc_args,       \* run_fetcher: args (alert_sum_threshold, credentials, out, once, pretty)
  sc_pc,         \* run_fetcher: position in the cycle
  sc_cycle,      \* run_fetcher: number of the cycle, from 1
  sc_batch,      \* run_fetcher: i, the offset of the batch being gathered
  sc_task,       \* run_fetcher: the process_market task of every market
  sc_results,    \* run_fetcher: results
  sc_best,       \* run_fetcher: best_market
  sc_alerts,     \* run_fetcher: deliveries attempted in this cycle (outcome, msg)
  sc_file,       \* run_fetcher: the file at args.out (exists, lines)
  sc_stdout,     \* run_fetcher: the Best Opportunity blocks printed so far
  wt_args,       \* run_watch_mode: args (trigger, cooldown, credentials, interval, once)
  wt_pc,         \* run_watch_mode: position in the cycle
  wt_cycle,      \* run_watch_mode: number of the cycle, from 1
  wt_clock,      \* run_watch_mode: time.time(), in seconds
  wt_start_time, \* run_watch_mode: start_time
  wt_details,    \* run_watch_mode: details
  wt_triggered,  \* run_watch_mode: triggered
  wt_now,        \* run_watch_mode: now
  wt_last_alert_ts,
                 \* run_watch_mode: last_alert_ts
  wt_fired,      \* run_watch_mode: the alerts sent so far (cycle, now, outcome)
  dv_server,     \* discover_markets: the responses the events API gives, by page
  dv_max_events, \* discover_markets: max_events (0 stands for None and 0)
  dv_pc,         \* discover_markets: position in the loop
  dv_offset,     \* discover_markets: offset
  dv_markets,    \* discover_markets: discovered_markets
  dv_events,     \* discover_markets: the events of the page still to iterate
  dv_length,     \* discover_markets: len(events) of the page
  dv_pending,    \* discover_markets: the markets of the event still to iterate
  dv_requests,   \* discover_markets: the offsets of the GETs made so far
  mn_args,       \* main: args and whether a venv is active
  mn_found,      \* main: number of markets discovery returns
  mn_pc,         \* main: position in main
  mn_exit,       \* main: how the process ended
  mn_cycles      \* main: poll cycles run

exVars == <<ex_book, ex_ask, ex_bid>>

fbVars == <<fb, fb_log>>

scVars == <<sc_markets, sc_args, sc_pc, sc_cycle, sc_batch, sc_task,
            sc_results, sc_best, sc_alerts, sc_file, sc_stdout>>

wtVars == <<wt_args, wt_pc, wt_cycle, wt_clock, wt_start_time, wt_details,
            wt_triggered, wt_now, wt_last_alert_ts, wt_fired>>

dvVars == <<dv_server, dv_max_events, dv_pc, dv_offset, dv_markets, dv_events,
            dv_length, dv_pending, dv_requests>>

mnVars == <<mn_args, mn_found, mn_pc, mn_exit, mn_cycles>>

vars == <<ex_book, ex_ask, ex_bid, fb, fb_log, sc_markets, sc_args, sc_pc,
          sc_cycle, sc_batch, sc_task, sc_results, sc_best, sc_alerts, sc_file,
          sc_stdout,
          wt_args, wt_pc, wt_cycle, wt_clock, wt_start_time, wt_details,
          wt_triggered, wt_now, wt_last_alert_ts, wt_fired,
          dv_server, dv_max_events, dv_pc, dv_offset, dv_markets, dv_events,
          dv_length, dv_pending, dv_requests,
          mn_args, mn_found, mn_pc, mn_exit, mn_cycles>>

\* ------------------------------------------------------------------ bounds
\* longest side list of a book in the extraction model
MaxEntries == 3

\* most markets discovery hands to the scan loop
MaxMarkets == 2

\* cycles of the scan loop that are followed
MaxCycles == 2

\* pages the events API holds
MaxPages == 2

\* ------------------------------------------------------- decimal arithmetic
\* getcontext().prec = 10
Prec == 10

Pow10(n) ==
  CASE n = 0 -> 1
    [] n = 1 -> 10
    [] n = 2 -> 100
    [] n = 3 -> 1000
    [] n = 4 -> 10000
    [] OTHER -> 100000

\* one limb holds Prec/2 decimal digits
Base == Pow10(Prec \div 2)

\* a finite Decimal of coefficient h * Base + l
Num(h, l) == [k |-> "num", hi |-> h + (l \div Base), lo |-> l % Base]

\* Decimal('NaN')
NaN == [k |-> "nan"]

\* Decimal('Infinity')
Inf == [k |-> "inf"]

\* the exception a Decimal operation or a subscript raises
Raise == [k |-> "raise"]

\* Python's None
None == [k |-> "none"]

IsNum(d) == d.k = "num"

\* number of digits of the coefficient beyond Prec
ExcessDigits(d) ==
  IF d.hi < Base THEN 0
  ELSE IF d.hi < 10 * Base THEN 1
  ELSE IF d.hi < 100 * Base THEN 2
  ELSE IF d.hi < 1000 * Base THEN 3
  ELSE IF d.hi < 10000 * Base THEN 4
  ELSE 5

\* the context's rounding (ROUND_HALF_EVEN) of an exact result to Prec digits
DecRound(d) ==
  IF d.k # "num" \/ ExcessDigits(d) = 0 THEN d
  ELSE LET n    == ExcessDigits(d)
           m    == Pow10(n)
           r    == d.lo % m
           odd  == IF n < 5 THEN ((d.lo \div m) % 2) = 1 ELSE (d.hi % 2) = 1
           up   == (2 * r > m) \/ (2 * r = m /\ odd)
       IN  Num(d.hi, (d.lo - r) + (IF up THEN m ELSE 0))

\* Decimal.__add__ under the context: a quiet NaN propagates, Infinity
\* absorbs every finite value
DecAdd(a, b) ==
  IF a.k = "nan" \/ b.k = "nan" THEN NaN
  ELSE IF a.k = "inf" \/ b.k = "inf" THEN Inf
  ELSE DecRound(Num(a.hi + b.hi, a.lo + b.lo))

\* Decimal.__mul__ under the context, for a multiplicand below Base: a
\* quiet NaN propagates, Infinity * 0 signals InvalidOperation (trapped)
DecMul(p, s) ==
  IF p.k = "nan" \/ s.k = "nan" THEN NaN
  ELSE IF p.k = "inf" \/ s.k = "inf"
       THEN (IF p = Num(0, 0) \/ s = Num(0, 0) THEN Raise ELSE Inf)
  ELSE DecRound(Num(p.lo * s.hi, p.lo * s.lo))

\* Decimal.__eq__: NaN equals nothing
DecEq(a, b) ==
  \/ a.k = "num" /\ b.k = "num" /\ a.hi = b.hi /\ a.lo = b.lo
  \/ a.k = "inf" /\ b.k = "inf"

\* Decimal.__lt__ on values that are no NaN (an ordering comparison with
\* NaN raises)
DecLt(a, b) ==
  IF a.k = "inf" THEN FALSE
  ELSE IF b.k = "inf" THEN TRUE
  ELSE a.hi < b.hi \/ (a.hi = b.hi /\ a.lo < b.lo)

\* Decimal(str(x)) of a field of a raw entry: the value the text denotes
\* (a trailing zero of the text does not change it); the construction is
\* exact; a missing key, or a text that is no number, raises
DecimalOfStr(raw) ==
  CASE raw.k = "num" -> Num(raw.hi, raw.lo)
    [] raw.k = "nan" -> NaN
    [] raw.k = "inf" -> Inf
    [] OTHER        -> Raise

\* ----------------------------------------------------- best-level extraction
\* for o in orders: parsed_orders.append((p, s, o))
ParseOrder(o) ==
  LET p == DecimalOfStr(o.price)
      s == DecimalOfStr(o.size)
  IN  IF p.k = "raise" \/ s.k = "raise" THEN Raise
      ELSE [k |-> "ok", p |-> p, s |-> s, o |-> o]

ParseOrders(orders) == [i \in 1..Len(orders) |-> ParseOrder(orders[i])]

\* the key order of the sort: ascending for asks, descending for bids
Before(a, b, reverse) == IF reverse THEN DecLt(b, a) ELSE DecLt(a, b)

\* stable insertion of x into a sorted list
RECURSIVE InsertSorted(_, _, _)
InsertSorted(x, sorted, reverse) ==
  IF sorted = <<>> THEN <<x>>
  ELSE IF Before(x.p, Head(sorted).p, reverse)
       THEN <<x>> \o sorted
       ELSE <<Head(sorted)>> \o InsertSorted(x, Tail(sorted), reverse)

\* parsed_orders.sort(key=lambda x: x[0], reverse=...): a stable sort
RECURSIVE SortOrders(_, _)
SortOrders(parsed, reverse) ==
  IF parsed = <<>> THEN <<>>
  ELSE InsertSorted(parsed[Len(parsed)],
                    SortOrders(SubSeq(parsed, 1, Len(parsed) - 1), reverse),
                    reverse)

\* sum(x[1] for x in best_level_orders): left to right from the integer 0
RECURSIVE SumSizes(_, _)
SumSizes(acc, level) ==
  IF level = <<>> THEN acc
  ELSE SumSizes(DecAdd(acc, Head(level).s), Tail(level))

AtPrice(x, best) == DecEq(x.p, best)

\* an extractor that answers an empty or missing side with a zero level
BestDetailsZeroLevel(book, side, reverse) ==
  IF ~book[side].present \/ book[side].orders = <<>>
  THEN [k |-> "level", price |-> Num(0, 0), size |-> Num(0, 0), entries |-> <<>>]
  ELSE LET parsed == ParseOrders(book[side].orders)
       IN  IF \E i \in 1..Len(parsed) : parsed[i].k = "raise" THEN None
           ELSE LET sorted == SortOrders(parsed, reverse)
                    best   == sorted[1].p
                    level  == SelectSeq(sorted, LAMBDA x : AtPrice(x, best))
                IN  [k |-> "level",
                     price |-> best,
                     size |-> SumSizes(Num(0, 0), level),
                     entries |-> [i \in 1..Len(level) |-> level[i].o]]

\* the common body of get_best_ask_details and get_best_bid_details
BestDetails(book, side, reverse) ==
  IF ~book[side].present \/ book[side].orders = <<>> THEN None
  ELSE LET parsed == ParseOrders(book[side].orders)
       IN  IF \E i \in 1..Len(parsed) : parsed[i].k = "raise" THEN None
           ELSE IF Len(parsed) >= 2 /\ \E i \in 1..Len(parsed) : parsed[i].p.k = "nan"
                THEN None
           ELSE LET sorted == SortOrders(parsed, reverse)
                    best   == sorted[1].p
                    level  == SelectSeq(sorted, LAMBDA x : AtPrice(x, best))
                IN  [k |-> "level",
                     price |-> best,
                     size |-> SumSizes(Num(0, 0), level),
                     entries |-> [i \in 1..Len(level) |-> level[i].o]]

get_best_ask_details(book) == BestDetails(book, "asks", FALSE)

\* a bid extractor that forgets reverse=True
get_best_bid_details_ascending(book) == BestDetails(book, "bids", FALSE)

get_best_bid_details(book) == BestDetails(book, "bids", TRUE)

\* a side of a book: the key may be missing from the mapping
NoSide == [present |-> FALSE, orders |-> <<>>]

Side(orders) == [present |-> TRUE, orders |-> orders]

\* the empty mapping fetch_book returns on exhaustion: no bids/asks keys
EmptyBook == [asks |-> NoSide, bids |-> NoSide]

\* ------------------------------------------------------------- fetch_book
\* max_retries=3
max_retries == 3

\* delay = 0.5, in milliseconds
InitialDelay == 500

\* the outcome of one HTTP attempt
Answer200(body) == [kind |-> "ok", status |-> 200, body |-> body]

\* status 200 with a body resp.json() cannot decode
Answer200Undecodable == [kind |-> "badjson", status |-> 200, body |-> EmptyBook]

Answer429 == [kind |-> "ratelimit", status |-> 429, body |-> EmptyBook]

AnswerOther(st) == [kind |-> "other", status |-> st, body |-> EmptyBook]

TransportError == [kind |-> "exc", status |-> 0, body |-> EmptyBook]

Timeout == [kind |-> "timeout", status |-> 0, body |-> EmptyBook]

\* the locals at the start of the call
FetchStart ==
  [pc |-> "loop", attempt |-> 0, delay |-> InitialDelay, waits |-> <<>>,
   result |-> EmptyBook]

\* a handler that names the transport error class only
CatchesClientErrorOnly(outcome) == outcome.kind = "exc"

\* except Exception: catches transport errors, timeouts and decode errors
Catches(outcome) == outcome.kind \in {"exc", "timeout", "badjson"}

\* the end of one iteration of for attempt in range(max_retries):
\* after the last one the loop is left and {} is returned
EndOfIteration(st) ==
  IF st.attempt + 1 >= max_retries
  THEN [st EXCEPT !.attempt = st.attempt + 1, !.pc = "ret", !.result = EmptyBook]
  ELSE [st EXCEPT !.attempt = st.attempt + 1]

\* if resp.status == 200: return await resp.json()
OnStatus200(st, outcome) ==
  [st EXCEPT !.attempt = st.attempt + 1, !.pc = "ret", !.result = outcome.body]

\* a 429 branch that sleeps but forgets delay *= 2
OnStatus429FixedDelay(st) ==
  EndOfIteration([st EXCEPT !.waits = Append(st.waits, st.delay)])

\* elif resp.status == 429: await asyncio.sleep(delay); delay *= 2
OnStatus429(st) ==
  EndOfIteration([st EXCEPT !.waits = Append(st.waits, st.delay),
                            !.delay = st.delay * 2])

\* an else branch that backs off and retries like the 429 branch
OnOtherStatusRetry(st) ==
  EndOfIteration([st EXCEPT !.waits = Append(st.waits, st.delay),
                            !.delay = st.delay * 2])

\* else: return {}
OnOtherStatus(st) ==
  [st EXCEPT !.attempt = st.attempt + 1, !.pc = "ret", !.result = EmptyBook]

\* except Exception as e: await asyncio.sleep(delay); delay *= 2
OnException(st, outcome) ==
  IF Catches(outcome)
  THEN EndOfIteration([st EXCEPT !.waits = Append(st.waits, st.delay),
                                 !.delay = st.delay * 2])
  ELSE [st EXCEPT !.attempt = st.attempt + 1, !.pc = "raised"]

\* one iteration of the loop of fetch_book under an HTTP outcome
FetchAttempt(st, outcome) ==
  CASE outcome.kind = "ok"        -> OnStatus200(st, outcome)
    [] outcome.kind = "ratelimit" -> OnStatus429(st)
    [] outcome.kind = "other"     -> OnOtherStatus(st)
    [] OTHER                      -> OnException(st, outcome)

\* a whole call of fetch_book under a sequence of HTTP outcomes
RECURSIVE FetchRun(_, _)
FetchRun(st, outcomes) ==
  IF st.pc # "loop" \/ outcomes = <<>> THEN st
  ELSE FetchRun(FetchAttempt(st, Head(outcomes)), Tail(outcomes))

fetch_book(outcomes) == FetchRun(FetchStart, outcomes).result

\* ------------------------------------------------- inputs of the extraction
\* the text of a number: its value in two limbs, and whether the text
\* carries a trailing zero ("0.40" against "0.4")
Text(h, l, z) == [k |-> "num", hi |-> h, lo |-> l, tz |-> z]

TextNaN == [k |-> "nan"]

TextBad == [k |-> "bad"]

Missing == [k |-> "missing"]

\* entries at the prices 0.40, 0.4 and 0.55 (in units of 1/10000) with the
\* sizes 5, 10 and 9999999995
WellFormedEntries ==
  { [price |-> Text(0, 4000, TRUE), size |-> Text(0, 10, FALSE)],
    [price |-> Text(0, 4000, FALSE), size |-> Text(0, 5, FALSE)],
    [price |-> Text(0, 5500, FALSE), size |-> Text(0, 5, FALSE)],
    [price |-> Text(0, 4000, FALSE), size |-> Text(99999, 99995, FALSE)],
    [price |-> Text(0, 5500, FALSE), size |-> Text(99999, 99995, FALSE)],
    [price |-> Text(0, 5500, TRUE), size |-> Text(0, 10, FALSE)] }

MalformedEntries ==
  { [price |-> TextBad, size |-> Text(0, 5, FALSE)],
    [price |-> TextNaN, size |-> Text(0, 5, FALSE)],
    [price |-> Text(0, 5500, FALSE), size |-> TextNaN],
    [price |-> Text(0, 4000, FALSE), size |-> Missing] }

Entries == WellFormedEntries \cup MalformedEntries

RECURSIVE SeqsUpTo(_, _)
SeqsUpTo(S, n) ==
  IF n = 0 THEN {<<>>}
  ELSE LET shorter == SeqsUpTo(S, n - 1)
       IN  shorter \cup {Append(q, e) : q \in shorter, e \in S}

Sides == {NoSide} \cup {Side(q) : q \in SeqsUpTo(Entries, MaxEntries)}

OtherSides == {NoSide, Side(<<>>), Side(<<[price |-> Text(0, 5500, FALSE), size |-> Text(0, 10, FALSE)]>>)}

Unset == [k |-> "unset"]

\* no file at the path
NoFile == [exists |-> FALSE, lines |-> <<>>]

\* the scan loop before it is entered
ScanIdle ==
  /\ sc_markets = <<>>
  /\ sc_args = [alert_sum_threshold |-> None, credentials |-> FALSE, out |-> None,
                once |-> TRUE, pretty |-> FALSE]
  /\ sc_pc = "exit"
  /\ sc_cycle = 0
  /\ sc_batch = 0
  /\ sc_task = <<>>
  /\ sc_results = <<>>
  /\ sc_best = None
  /\ sc_alerts = <<>>
  /\ sc_file = NoFile
  /\ sc_stdout = <<>>

\* the watch loop before it is entered
WatchIdle ==
  /\ wt_args = Unset
  /\ wt_pc = "exit"
  /\ wt_cycle = 0
  /\ wt_clock = 0
  /\ wt_start_time = 0
  /\ wt_details = None
  /\ wt_triggered = FALSE
  /\ wt_now = 0
  /\ wt_last_alert_ts = 0
  /\ wt_fired = <<>>

\* discover_markets before it is called
DiscoverIdle ==
  /\ dv_server = <<>>
  /\ dv_max_events = 0
  /\ dv_pc = "returned"
  /\ dv_offset = 0
  /\ dv_markets = <<>>
  /\ dv_events = <<>>
  /\ dv_length = 0
  /\ dv_pending = <<>>
  /\ dv_requests = <<>>

\* main before the process starts
MainIdle ==
  /\ mn_args = Unset
  /\ mn_found = 0
  /\ mn_pc = "exited"
  /\ mn_exit = "none"
  /\ mn_cycles = 0

\* ---------------------------------------------- specification: extraction
InitExtract ==
  /\ ex_book \in {[asks |-> a, bids |-> b] : a \in Sides, b \in OtherSides}
         \cup {[asks |-> a, bids |-> b] : a \in OtherSides, b \in Sides}
  /\ ex_ask = Unset
  /\ ex_bid = Unset
  /\ fb = FetchStart
  /\ fb_log = <<>>
  /\ ScanIdle
  /\ WatchIdle
  /\ DiscoverIdle
  /\ MainIdle

ExtractAsk ==
  /\ ex_ask = Unset
  /\ ex_ask' = get_best_ask_details(ex_book)
  /\ UNCHANGED <<ex_book, ex_bid, fbVars, scVars, wtVars, dvVars, mnVars>>

ExtractBid ==
  /\ ex_bid = Unset
  /\ ex_bid' = get_best_bid_details(ex_book)
  /\ UNCHANGED <<ex_book, ex_ask, fbVars, scVars, wtVars, dvVars, mnVars>>

NextExtract == ExtractAsk \/ ExtractBid

SpecExtract == InitExtract /\ [][NextExtract]_vars

\* ---------------------------------------------- specification: fetch_book
\* the bodies a 200 answer carries
FetchBodies ==
  { EmptyBook,
    [asks |-> Side(<<[price |-> Text(0, 4000, FALSE), size |-> Text(0, 10, FALSE)]>>),
     bids |-> NoSide],
    [asks |-> Side(<<>>),
     bids |-> Side(<<[price |-> Text(0, 5500, FALSE), size |-> Text(0, 5, FALSE)]>>)] }

\* statuses other than 200 and 429
OtherStatuses == {404, 500}

InitFetch ==
  /\ fb = FetchStart
  /\ fb_log = <<>>
  /\ ex_book = EmptyBook
  /\ ex_ask = Unset
  /\ ex_bid = Unset
  /\ ScanIdle
  /\ WatchIdle
  /\ DiscoverIdle
  /\ MainIdle

Attempt(outcome) ==
  /\ fb.pc = "loop"
  /\ fb' = FetchAttempt(fb, outcome)
  /\ fb_log' = Append(fb_log, outcome)
  /\ UNCHANGED <<exVars, scVars, wtVars, dvVars, mnVars>>

Get200 == \E b \in FetchBodies : Attempt(Answer200(b))

Get200Undecodable == Attempt(Answer200Undecodable)

Get429 == Attempt(Answer429)

GetOtherStatus == \E st \in OtherStatuses : Attempt(AnswerOther(st))

GetTransportError == Attempt(TransportError)

GetTimeout == Attempt(Timeout)

NextFetch ==
  \/ Get200
  \/ Get200Undecodable
  \/ Get429
  \/ GetOtherStatus
  \/ GetTransportError
  \/ GetTimeout

SpecFetch == InitFetch /\ [][NextFetch]_vars

\* -------------------------------------------------------- process_market
\* float(x) of a Decimal of at most Prec digits: the value is kept
FloatOf(d) ==
  CASE d.k = "nan" -> [k |-> "fnan"]
    [] d.k = "inf" -> [k |-> "finf"]
    [] OTHER       -> [k |-> "float", hi |-> d.hi, lo |-> d.lo]

\* float(x) if x is not None else None
OptFloat(d) == IF d = None THEN None ELSE FloatOf(d)

\* a < b on floats: every comparison with nan is false, every finite
\* value is below inf
FloatLt(a, b) ==
  /\ a.k = "float"
  /\ b.k \in {"float", "finf"}
  /\ (b.k = "finf" \/ a.hi < b.hi \/ (a.hi = b.hi /\ a.lo < b.lo))

\* not yes_id: a missing key (None) and the empty string are both falsy
Falsy(token_id) == token_id = ""

\* a sum that takes an absent ask for 0
SumFlagDefaultZero(yes_ask, no_ask) ==
  IF yes_ask = None /\ no_ask = None THEN None
  ELSE DecAdd(IF yes_ask = None THEN Num(0, 0) ELSE yes_ask,
              IF no_ask = None THEN Num(0, 0) ELSE no_ask)

\* sum_flag = None; if yes_ask is not None and no_ask is not None: ...
SumFlag(yes_ask, no_ask) ==
  IF yes_ask # None /\ no_ask # None THEN DecAdd(yes_ask, no_ask) ELSE None

\* the metrics process_market computes from the two fetched books; the
\* two products are outside every try, so that an exception of the decimal
\* context leaves process_market
Metrics(market, book_yes, book_no) ==
  LET yes_details == get_best_ask_details(book_yes)
      no_details  == get_best_ask_details(book_no)
      yes_ask == IF yes_details # None THEN yes_details.price ELSE None
      no_ask  == IF no_details # None THEN no_details.price ELSE None
      yes_ask_size == IF yes_details # None THEN yes_details.size ELSE None
      no_ask_size  == IF no_details # None THEN no_details.size ELSE None
      yes_ask_notional == IF yes_ask # None /\ yes_ask_size # None
                          THEN DecMul(yes_ask, yes_ask_size) ELSE None
      no_ask_notional  == IF no_ask # None /\ no_ask_size # None
                          THEN DecMul(no_ask, no_ask_size) ELSE None
      both == yes_ask # None /\ no_ask # None
      sum_flag == SumFlag(yes_ask, no_ask)
      both_ask_notional == IF both /\ yes_ask_notional # None /\ no_ask_notional # None
                           THEN DecAdd(yes_ask_notional, no_ask_notional) ELSE None
  IN  IF yes_ask_notional = Raise \/ no_ask_notional = Raise THEN Raise
      ELSE [market_slug |-> market.market_slug,
            yes_ask |-> OptFloat(yes_ask),
            no_ask |-> OptFloat(no_ask),
            sum_flag |-> OptFloat(sum_flag),
            yes_ask_notional_usd |-> OptFloat(yes_ask_notional),
            no_ask_notional_usd |-> OptFloat(no_ask_notional),
            both_ask_notional_usd |-> OptFloat(both_ask_notional),
            yes_debug_size |-> OptFloat(yes_ask_size),
            no_debug_size |-> OptFloat(no_ask_size)]

\* a fetch_book coroutine of a process_market task
NotIssued == [st |-> "idle", book |-> EmptyBook]

InFlight == [st |-> "inflight", book |-> EmptyBook]

Fetched(b) == [st |-> "done", book |-> b]

\* a process_market task: created, waiting on gather(task_yes, task_no), done
NewTask == [pc |-> "created", yes |-> NotIssued, no |-> NotIssued, ret |-> None]

\* a start that tests the yes token id only
process_market_start_yes_only(market, task) ==
  IF Falsy(market.yes_token_id)
  THEN [task EXCEPT !.pc = "done", !.ret = None]
  ELSE [task EXCEPT !.pc = "waiting", !.yes = InFlight, !.no = InFlight]

\* process_market up to its await: the early return, or both fetches issued
process_market_start(market, task) ==
  IF Falsy(market.yes_token_id) \/ Falsy(market.no_token_id)
  THEN [task EXCEPT !.pc = "done", !.ret = None]
  ELSE [task EXCEPT !.pc = "waiting", !.yes = InFlight, !.no = InFlight]

\* a gather that returns with the first book
GatherReturnedFirst(task) == task.yes.st = "done" \/ task.no.st = "done"

\* book_yes, book_no = await asyncio.gather(task_yes, task_no): the await
\* ends when both fetches have returned
GatherReturned(task) == task.yes.st = "done" /\ task.no.st = "done"

\* the end of a process_market task: return of its record, or the
\* exception its arithmetic raised
TaskEnd(task, ret) ==
  IF ret = Raise THEN [task EXCEPT !.pc = "raised"]
  ELSE [task EXCEPT !.pc = "done", !.ret = ret]

\* process_market after gather returned both books
process_market_finish(market, task) ==
  TaskEnd(task, Metrics(market, task.yes.book, task.no.book))

\* ------------------------------------------------------------ run_fetcher
\* batch_size = 10
batch_size == 10

Min(a, b) == IF a < b THEN a ELSE b

\* a gather of all the tasks that are left
BatchOfAll(i, n) == (i + 1)..n

\* the indices of tasks[i:i+batch_size]
BatchOf(i, n) == (i + 1)..Min(i + batch_size, n)

\* [r for r in batch_results if r], in task order
RECURSIVE BatchResults(_, _, _)
BatchResults(tasks, from, to) ==
  IF from > to THEN <<>>
  ELSE (IF tasks[from].ret # None THEN <<tasks[from].ret>> ELSE <<>>)
       \o BatchResults(tasks, from + 1, to)

\* valid_markets = [r for r in results if r['sum_flag'] is not None]
ValidMarkets(results) == SelectSeq(results, LAMBDA r : r.sum_flag # None)

\* min(valid_markets, key=lambda x: x['sum_flag']): the first element is
\* kept until a later one compares strictly less
RECURSIVE MinBySumFlag(_, _)
MinBySumFlag(current, rest) ==
  IF rest = <<>> THEN current
  ELSE IF FloatLt(Head(rest).sum_flag, current.sum_flag)
       THEN MinBySumFlag(Head(rest), Tail(rest))
       ELSE MinBySumFlag(current, Tail(rest))

\* best_market = None; if valid_markets: best_market = min(...)
BestMarket(results) ==
  LET valid_markets == ValidMarkets(results)
  IN  IF valid_markets = <<>> THEN None
      ELSE MinBySumFlag(Head(valid_markets), Tail(valid_markets))

\* json.dumps(r) + "\n": a line of the per-market shape; the line is kept
\* by the market it reports
MetricsLine(r) == [type |-> "metrics", market_slug |-> r.market_slug]

\* min(a, b) of the builtins: a, unless b compares strictly less
FloatMin(a, b) == IF FloatLt(b, a) THEN b ELSE a

\* f"{x:.2f}": the amount to the nearest cent (an amount is held in units
\* of 1/10000; on a decimal tie the digit Python prints follows the binary
\* value of the float, here the even cent), nan and inf by their names
Fmt2(x) ==
  CASE x.k = "fnan" -> [k |-> "nan"]
    [] x.k = "finf" -> [k |-> "inf"]
    [] OTHER ->
         LET cents == x.hi * 1000 + (x.lo \div 100)
             r     == x.lo % 100
             up    == r > 50 \/ (r = 50 /\ cents % 2 = 1)
         IN  [k |-> "fixed", cents |-> cents + (IF up THEN 1 ELSE 0)]

\* if args.pretty: if best_market: print the Best Opportunity block, of
\* which the market, the two notionals, the label of the sum and the
\* executable notional are kept
PrettyBlock(best_market) ==
  LET yes_not_val == best_market.yes_ask_notional_usd
      no_not_val  == best_market.no_ask_notional_usd
      executable_notional ==
        IF yes_not_val # None /\ no_not_val # None
        THEN FloatMin(yes_not_val, no_not_val)
        ELSE FloatOf(Num(0, 0))
      sum_float == best_market.sum_flag
      flag_lbl  == IF FloatLt(FloatOf(Num(0, 10001)), sum_float) THEN "GT1"
                   ELSE IF FloatLt(sum_float, FloatOf(Num(0, 9999))) THEN "LT1"
                   ELSE "EQ1"
  IN  [market_slug |-> best_market.market_slug,
       y_not |-> IF yes_not_val # None THEN Fmt2(yes_not_val) ELSE [k |-> "N/A"],
       n_not |-> IF no_not_val # None THEN Fmt2(no_not_val) ELSE [k |-> "N/A"],
       flag_lbl |-> flag_lbl,
       exec_not_str |-> Fmt2(executable_notional)]

\* a summary line that labels the sum against 1.0 without the band
BestLineNoBand(best_market) ==
  LET sum_float == best_market.sum_flag
  IN  [type |-> "best_market",
       market_slug |-> best_market.market_slug,
       sum_flag |-> IF FloatLt(FloatOf(Num(0, 10000)), sum_float) THEN "GT1"
                    ELSE IF FloatLt(sum_float, FloatOf(Num(0, 10000))) THEN "LT1"
                    ELSE "EQ1",
       executable_notional_usd |->
         IF best_market.yes_ask_notional_usd # None /\ best_market.no_ask_notional_usd # None
         THEN FloatMin(best_market.yes_ask_notional_usd, best_market.no_ask_notional_usd)
         ELSE FloatOf(Num(0, 0))]

\* json.dumps(best_entry) + "\n": best_entry = {"type": "best_market", ...},
\* of which the market, the label of the sum and the executable notional
\* are kept (the sum and the two notionals are copied from best_market)
BestLine(best_market) ==
  LET sum_float == best_market.sum_flag
      flag_lbl  == IF FloatLt(FloatOf(Num(0, 10001)), sum_float) THEN "GT1"
                   ELSE IF FloatLt(sum_float, FloatOf(Num(0, 9999))) THEN "LT1"
                   ELSE "EQ1"
      yes_not_val == best_market.yes_ask_notional_usd
      no_not_val  == best_market.no_ask_notional_usd
      executable_notional ==
        IF yes_not_val # None /\ no_not_val # None
        THEN FloatMin(yes_not_val, no_not_val)
        ELSE FloatOf(Num(0, 0))
  IN  [type |-> "best_market",
       market_slug |-> best_market.market_slug,
       sum_flag |-> flag_lbl,
       executable_notional_usd |-> executable_notional]

\* msg = "... Market: ... Sum: {sum_val} ({flag_lbl}) Executable USD:
\* ${exec_not_str} ...", of which the same parts are kept
AlertMessage(best_market) ==
  LET yes_not_val == best_market.yes_ask_notional_usd
      no_not_val  == best_market.no_ask_notional_usd
      sum_float == best_market.sum_flag
      flag_lbl  == IF FloatLt(FloatOf(Num(0, 10001)), sum_float) THEN "GT1"
                   ELSE IF FloatLt(sum_float, FloatOf(Num(0, 9999))) THEN "LT1"
                   ELSE "EQ1"
      executable_notional ==
        IF yes_not_val # None /\ no_not_val # None
        THEN FloatMin(yes_not_val, no_not_val)
        ELSE FloatOf(Num(0, 0))
  IN  [market_slug |-> best_market.market_slug,
       y_not |-> IF yes_not_val # None THEN Fmt2(yes_not_val) ELSE [k |-> "N/A"],
       n_not |-> IF no_not_val # None THEN Fmt2(no_not_val) ELSE [k |-> "N/A"],
       flag_lbl |-> flag_lbl,
       exec_not_str |-> Fmt2(executable_notional)]

\* an output that opens the file for writing in every cycle
OpenModeAlwaysWrite(file) == "w"

\* mode = 'a' if os.path.exists(args.out) else 'w'
OpenMode(file) == IF file.exists THEN "a" ELSE "w"

\* an output that writes the records of the valid markets only
WriteOutputValidOnly(file, results, best_market) ==
  LET kept    == IF OpenMode(file) = "a" THEN file.lines ELSE <<>>
      valid   == ValidMarkets(results)
      records == [i \in 1..Len(valid) |-> MetricsLine(valid[i])]
      summary == IF best_market # None THEN <<BestLine(best_market)>> ELSE <<>>
  IN  [exists |-> TRUE, lines |-> kept \o records \o summary]

\* with open(args.out, mode) as f ('w' creates the file or truncates it,
\* 'a' keeps it): for r in results: f.write(...)
\* if best_market: ... f.write(json.dumps(best_entry) + "\n")
WriteOutput(file, results, best_market) ==
  LET kept    == IF OpenMode(file) = "a" THEN file.lines ELSE <<>>
      records == [i \in 1..Len(results) |-> MetricsLine(results[i])]
      summary == IF best_market # None THEN <<BestLine(best_market)>> ELSE <<>>
  IN  [exists |-> TRUE, lines |-> kept \o records \o summary]

\* a trigger that also fires on a sum equal to the threshold
ThresholdMetOrEqual(args, best_market) ==
  /\ args.alert_sum_threshold # None
  /\ best_market # None
  /\ ~FloatLt(args.alert_sum_threshold, best_market.sum_flag)

\* if args.alert_sum_threshold is not None and best_market:
\*     if current_sum < args.alert_sum_threshold:
ThresholdMet(args, best_market) ==
  /\ args.alert_sum_threshold # None
  /\ best_market # None
  /\ FloatLt(best_market.sum_flag, args.alert_sum_threshold)

\* ... if not tg_token or not tg_chat_id: skip  else: send_telegram_alert
ShouldSend(args, best_market) == ThresholdMet(args, best_market) /\ args.credentials

\* ------------------------------------------------------ send_telegram_alert
\* what the one POST to the Telegram API ends in: status 200, another
\* status, or an exception (transport error, the 30 s timeout)
DeliveryOutcomes == {"delivered", "rejected", "failed"}

\* a sender whose POST is not inside try/except
send_telegram_alert_uncaught(outcome) ==
  IF outcome = "failed" THEN "raised" ELSE "returned"

\* try: async with session.post(...) as resp: if resp.status != 200:
\* logger.warning(...) else: logger.info(...)  except Exception: log
send_telegram_alert(outcome) ==
  CASE outcome = "delivered" -> "returned"
    [] outcome = "rejected"  -> "returned"
    [] outcome = "failed"    -> "returned"

\* ---------------------------------------------- specification: scan loop
\* a book the order-book endpoint serves: one ask; ScanOutcomes has the
\* best asks 0.40 x 10 and 0.55 x 5 and an ask whose price is the text NaN
BookAsk(price, size) ==
  [asks |-> Side(<<[price |-> price, size |-> size]>>), bids |-> NoSide]

\* the HTTP outcomes one fetch_book call can meet
ScanOutcomes ==
  { <<Answer200(BookAsk(Text(0, 4000, FALSE), Text(0, 10, FALSE)))>>,
    <<Answer429, Answer200(BookAsk(Text(0, 5500, FALSE), Text(0, 5, FALSE)))>>,
    <<Answer200(BookAsk(TextNaN, Text(0, 5, FALSE)))>>,
    <<Answer429, TransportError, Timeout>>,
    <<AnswerOther(500)>> }

\* what the order-book endpoint answers for a token id: anything of
\* ScanOutcomes for "tok", and one book with a single ask for the others:
\* Infinity x 0, 0.40 x 10, 0.42 x 100, 0.55 x 50, 0.50 x 10, and for
\* "band" a price from 0.4998 to 0.5002 ([k |-> "inf"] is the text Infinity)
OutcomesFor(token_id) ==
  CASE token_id = "inf"  -> {<<Answer200(BookAsk([k |-> "inf"], Text(0, 0, FALSE)))>>}
    [] token_id = "a40"  -> {<<Answer200(BookAsk(Text(0, 4000, FALSE), Text(0, 10, FALSE)))>>}
    [] token_id = "a42"  -> {<<Answer200(BookAsk(Text(0, 4200, FALSE), Text(0, 100, FALSE)))>>}
    [] token_id = "a55"  -> {<<Answer200(BookAsk(Text(0, 5500, FALSE), Text(0, 50, FALSE)))>>}
    [] token_id = "half" -> {<<Answer200(BookAsk(Text(0, 5000, FALSE), Text(0, 10, FALSE)))>>}
    [] token_id = "band" -> {<<Answer200(BookAsk(Text(0, p, FALSE), Text(0, 10, FALSE)))>> :
                               p \in {4998, 4999, 5000, 5001, 5002}}
    [] OTHER             -> ScanOutcomes

\* token ids as discovery writes them; "" stands for a missing or empty id
TokenIds == {"", "tok"}

MarketOf(slug, y, n) == [market_slug |-> slug, yes_token_id |-> y, no_token_id |-> n]

MarketLists ==
  UNION { [1..n -> {[yes_token_id |-> y, no_token_id |-> t] : y \in TokenIds, t \in TokenIds}]
          : n \in 1..MaxMarkets }

\* --alert-sum-threshold 0.95, as a float
Threshold95 == FloatOf(Num(0, 9500))

\* the configurations of the scan loop
ScanArgs ==
  { [alert_sum_threshold |-> None, credentials |-> TRUE, out |-> None, once |-> TRUE, pretty |-> FALSE],
    [alert_sum_threshold |-> Threshold95, credentials |-> FALSE, out |-> None,
     once |-> TRUE, pretty |-> FALSE],
    [alert_sum_threshold |-> Threshold95, credentials |-> TRUE, out |-> None,
     once |-> TRUE, pretty |-> FALSE],
    [alert_sum_threshold |-> Threshold95, credentials |-> TRUE, out |-> None,
     once |-> FALSE, pretty |-> FALSE] }

InitScan ==
  /\ \E ms \in MarketLists :
       sc_markets = [i \in 1..Len(ms) |-> MarketOf(i, ms[i].yes_token_id, ms[i].no_token_id)]
  /\ sc_args \in ScanArgs
  /\ sc_pc = "gather"
  /\ sc_cycle = 1
  /\ sc_batch = 0
  /\ sc_task = [i \in 1..Len(sc_markets) |-> NewTask]
  /\ sc_results = <<>>
  /\ sc_best = None
  /\ sc_alerts = <<>>
  /\ sc_file = NoFile
  /\ sc_stdout = <<>>
  /\ fb = FetchStart
  /\ fb_log = <<>>
  /\ ex_book = EmptyBook
  /\ ex_ask = Unset
  /\ ex_bid = Unset
  /\ WatchIdle
  /\ DiscoverIdle
  /\ MainIdle

InBatch(i) == sc_pc = "gather" /\ i \in BatchOf(sc_batch, Len(sc_markets))

\* a task of the gathered batch runs up to its first await
StartMarket(i) ==
  /\ InBatch(i)
  /\ sc_task[i].pc = "created"
  /\ sc_task' = [sc_task EXCEPT ![i] = process_market_start(sc_markets[i], @)]
  /\ UNCHANGED <<sc_markets, sc_args, sc_file, sc_stdout, sc_pc, sc_cycle, sc_batch, sc_results,
                 sc_best, sc_alerts, exVars, fbVars, wtVars, dvVars, mnVars>>

\* the yes fetch of a task returns
YesFetched(i) ==
  /\ InBatch(i)
  /\ sc_task[i].yes.st = "inflight"
  /\ \E outcomes \in OutcomesFor(sc_markets[i].yes_token_id) :
       sc_task' = [sc_task EXCEPT ![i].yes = Fetched(fetch_book(outcomes))]
  /\ UNCHANGED <<sc_markets, sc_args, sc_file, sc_stdout, sc_pc, sc_cycle, sc_batch, sc_results,
                 sc_best, sc_alerts, exVars, fbVars, wtVars, dvVars, mnVars>>

\* the no fetch of a task returns
NoFetched(i) ==
  /\ InBatch(i)
  /\ sc_task[i].no.st = "inflight"
  /\ \E outcomes \in OutcomesFor(sc_markets[i].no_token_id) :
       sc_task' = [sc_task EXCEPT ![i].no = Fetched(fetch_book(outcomes))]
  /\ UNCHANGED <<sc_markets, sc_args, sc_file, sc_stdout, sc_pc, sc_cycle, sc_batch, sc_results,
                 sc_best, sc_alerts, exVars, fbVars, wtVars, dvVars, mnVars>>

\* gather(task_yes, task_no) returns and the task computes its metrics
FinishMarket(i) ==
  /\ InBatch(i)
  /\ sc_task[i].pc = "waiting"
  /\ GatherReturned(sc_task[i])
  /\ sc_task' = [sc_task EXCEPT ![i] = process_market_finish(sc_markets[i], @)]
  /\ UNCHANGED <<sc_markets, sc_args, sc_file, sc_stdout, sc_pc, sc_cycle, sc_batch, sc_results,
                 sc_best, sc_alerts, exVars, fbVars, wtVars, dvVars, mnVars>>

\* await asyncio.gather(*batch) ends. It returns when every task of the
\* batch has returned: results.extend(...), then the next batch or the end
\* of the for loop. It raises as soon as one task has raised (no
\* return_exceptions): the exception leaves run_fetcher, whatever the other
\* tasks of the batch have reached
BatchDone ==
  /\ sc_pc = "gather"
  /\ IF \E i \in BatchOf(sc_batch, Len(sc_markets)) : sc_task[i].pc = "raised"
     THEN /\ sc_pc' = "raised"
          /\ UNCHANGED <<sc_results, sc_batch>>
     ELSE /\ \A i \in BatchOf(sc_batch, Len(sc_markets)) : sc_task[i].pc = "done"
          /\ sc_results' = sc_results \o
               BatchResults(sc_task, sc_batch + 1,
                            Min(sc_batch + batch_size, Len(sc_markets)))
          /\ IF sc_batch + batch_size < Len(sc_markets)
             THEN sc_batch' = sc_batch + batch_size /\ sc_pc' = "gather"
             ELSE sc_batch' = sc_batch /\ sc_pc' = "select"
  /\ UNCHANGED <<sc_markets, sc_args, sc_file, sc_stdout, sc_cycle, sc_task, sc_best, sc_alerts,
                 exVars, fbVars, wtVars, dvVars, mnVars>>

\* Calculate Best Market (Common); 3. Output: if args.pretty: ...
\* if args.out: ...
SelectBest ==
  /\ sc_pc = "select"
  /\ sc_best' = BestMarket(sc_results)
  /\ sc_stdout' = IF sc_args.pretty /\ BestMarket(sc_results) # None
                  THEN Append(sc_stdout, PrettyBlock(BestMarket(sc_results)))
                  ELSE sc_stdout
  /\ sc_file' = IF sc_args.out # None
                THEN WriteOutput(sc_file, sc_results, BestMarket(sc_results))
                ELSE sc_file
  /\ sc_pc' = "alert"
  /\ UNCHANGED <<sc_markets, sc_args, sc_cycle, sc_batch, sc_task, sc_results,
                 sc_alerts, exVars, fbVars, wtVars, dvVars, mnVars>>

\* 4. Telegram Alert: the delivery is attempted and ends in one of
\* delivered (200), rejected (another status) or failed (exception)
SendAlert ==
  /\ sc_pc = "alert"
  /\ ShouldSend(sc_args, sc_best)
  /\ \E outcome \in DeliveryOutcomes :
       /\ sc_alerts' = Append(sc_alerts, [outcome |-> outcome,
                                          msg |-> AlertMessage(sc_best)])
       /\ sc_pc' = IF send_telegram_alert(outcome) = "returned"
                   THEN "sleep" ELSE "fatal"
  /\ UNCHANGED <<sc_markets, sc_args, sc_file, sc_stdout, sc_cycle, sc_batch, sc_task, sc_results,
                 sc_best, exVars, fbVars, wtVars, dvVars, mnVars>>

\* 4. Telegram Alert: no threshold, no best market, sum not below the
\* threshold, or credentials missing
SkipAlert ==
  /\ sc_pc = "alert"
  /\ ~ShouldSend(sc_args, sc_best)
  /\ sc_pc' = "sleep"
  /\ UNCHANGED <<sc_markets, sc_args, sc_file, sc_stdout, sc_cycle, sc_batch, sc_task, sc_results,
                 sc_best, sc_alerts, exVars, fbVars, wtVars, dvVars, mnVars>>

\* if args.once: break
ExitOnce ==
  /\ sc_pc = "sleep"
  /\ sc_args.once
  /\ sc_pc' = "exit"
  /\ UNCHANGED <<sc_markets, sc_args, sc_file, sc_stdout, sc_cycle, sc_batch, sc_task, sc_results,
                 sc_best, sc_alerts, exVars, fbVars, wtVars, dvVars, mnVars>>

\* the sleep ends and the next cycle starts: results = [], new tasks
NextCycle ==
  /\ sc_pc = "sleep"
  /\ ~sc_args.once
  /\ sc_cycle < MaxCycles
  /\ sc_cycle' = sc_cycle + 1
  /\ sc_pc' = "gather"
  /\ sc_batch' = 0
  /\ sc_task' = [i \in 1..Len(sc_markets) |-> NewTask]
  /\ sc_results' = <<>>
  /\ sc_best' = None
  /\ sc_alerts' = <<>>
  /\ UNCHANGED <<sc_markets, sc_args, sc_file, sc_stdout, exVars, fbVars, wtVars, dvVars, mnVars>>

NextScan ==
  \/ \E i \in 1..Len(sc_markets) : StartMarket(i)
  \/ \E i \in 1..Len(sc_markets) : YesFetched(i)
  \/ \E i \in 1..Len(sc_markets) : NoFetched(i)
  \/ \E i \in 1..Len(sc_markets) : FinishMarket(i)
  \/ BatchDone
  \/ SelectBest
  \/ SendAlert
  \/ SkipAlert
  \/ ExitOnce
  \/ NextCycle

SpecScan == InitScan /\ [][NextScan]_vars

\* ------------------------------------------ specification: the output file
\* the file before the run: absent, or left by an earlier run with one line
FilesBefore ==
  { NoFile,
    [exists |-> TRUE, lines |-> <<[type |-> "metrics", market_slug |-> 0]>>] }

\* the lists discovery hands over: one market, two markets, and a market
\* without token ids before a market with both
OutputMarketLists ==
  LET both == [yes_token_id |-> "tok", no_token_id |-> "tok"]
      none == [yes_token_id |-> "", no_token_id |-> ""]
  IN  { <<both>>, <<both, both>>, <<none, both>> }

\* --alert-sum-threshold 0.95 --out scan.jsonl, with credentials, with and
\* without --once
OutputArgs ==
  { [alert_sum_threshold |-> Threshold95, credentials |-> TRUE,
     out |-> [k |-> "path", name |-> "scan.jsonl"], once |-> o, pretty |-> FALSE] : o \in BOOLEAN }

InitOutput ==
  /\ \E ms \in OutputMarketLists :
       sc_markets = [i \in 1..Len(ms) |-> MarketOf(i, ms[i].yes_token_id, ms[i].no_token_id)]
  /\ sc_args \in OutputArgs
  /\ sc_file \in FilesBefore
  /\ sc_stdout = <<>>
  /\ sc_pc = "gather"
  /\ sc_cycle = 1
  /\ sc_batch = 0
  /\ sc_task = [i \in 1..Len(sc_markets) |-> NewTask]
  /\ sc_results = <<>>
  /\ sc_best = None
  /\ sc_alerts = <<>>
  /\ fb = FetchStart
  /\ fb_log = <<>>
  /\ ex_book = EmptyBook
  /\ ex_ask = Unset
  /\ ex_bid = Unset
  /\ WatchIdle
  /\ DiscoverIdle
  /\ MainIdle

SpecOutput == InitOutput /\ [][NextScan]_vars

\* ------------------------------------- specification: the cycle of a scan
\* the lists discovery hands over: a market whose yes book makes the
\* arithmetic raise before a sound one; batch_size + 1 markets of which
\* the first and the last two have token ids; a market whose sum lies around 1; the
\* market with the asks 0.42 x 100 and 0.55 x 50; a market with any books.
\* The run has --pretty, --out, --alert-sum-threshold 2.0 and credentials
InitCycle ==
  /\ \E ms \in { <<[y |-> "inf", n |-> "a40"], [y |-> "a40", n |-> "a55"]>>,
                 [i \in 1..(batch_size + 1) |->
                    IF i = 1 \/ i >= batch_size THEN [y |-> "a40", n |-> "a55"]
                    ELSE [y |-> "", n |-> ""]],
                 <<[y |-> "band", n |-> "half"]>>,
                 <<[y |-> "a42", n |-> "a55"]>>,
                 <<[y |-> "tok", n |-> "tok"]>> } :
       sc_markets = [i \in 1..Len(ms) |-> MarketOf(i, ms[i].y, ms[i].n)]
  /\ \E o \in BOOLEAN :
       sc_args = [alert_sum_threshold |-> FloatOf(Num(0, 20000)), credentials |-> TRUE,
                  out |-> [k |-> "path", name |-> "scan.jsonl"], once |-> o,
                  pretty |-> TRUE]
  /\ sc_file = NoFile
  /\ sc_stdout = <<>>
  /\ sc_pc = "gather"
  /\ sc_cycle = 1
  /\ sc_batch = 0
  /\ sc_task = [i \in 1..Len(sc_markets) |-> NewTask]
  /\ sc_results = <<>>
  /\ sc_best = None
  /\ sc_alerts = <<>>
  /\ fb = FetchStart
  /\ fb_log = <<>>
  /\ ex_book = EmptyBook
  /\ ex_ask = Unset
  /\ ex_bid = Unset
  /\ WatchIdle
  /\ DiscoverIdle
  /\ MainIdle

SpecCycle == InitCycle /\ [][NextScan]_vars

\* ------------------------------------------------------------ run_watch_mode
\* a <= b on floats: every comparison with nan is false
FloatLe(a, b) ==
  /\ a.k # "fnan"
  /\ b.k # "fnan"
  /\ ~FloatLt(b, a)

check_trigger(current_price, op, trigger_price) ==
  CASE op = ">=" -> FloatLe(trigger_price, current_price)
    [] op = ">"  -> FloatLt(trigger_price, current_price)
    [] op = "<=" -> FloatLe(current_price, trigger_price)
    [] op = "<"  -> FloatLt(current_price, trigger_price)
    [] OTHER     -> FALSE

\* a trigger that is checked on the placeholder price when there is no bid
TriggeredOnPlaceholder(args, details) ==
  check_trigger(IF details # None THEN FloatOf(details.price) ELSE FloatOf(Num(0, 0)),
                args.trigger_op, args.trigger_price)

\* triggered = False; if details: buy1_price = float(details[0]); ...
\*     triggered = check_trigger(buy1_price, args.trigger_op, args.trigger_price)
Triggered(args, details) ==
  /\ details # None
  /\ check_trigger(FloatOf(details.price), args.trigger_op, args.trigger_price)

\* an alert decision that forgets the cooldown
should_alert_every_time(args, now, last_alert_ts) == TRUE

\* should_alert = False; if args.alert_cooldown == 0: should_alert = True
\* elif (now - last_alert_ts) >= args.alert_cooldown: should_alert = True
should_alert(args, now, last_alert_ts) ==
  \/ args.alert_cooldown = 0
  \/ now - last_alert_ts >= args.alert_cooldown

\* ---------------------------------------------- specification: watch loop
\* a book the order-book endpoint serves for the watched token: one bid of
\* size 5 at the given price text
BookBid(price) ==
  [asks |-> NoSide, bids |-> Side(<<[price |-> price, size |-> Text(0, 5, FALSE)]>>)]

\* the HTTP outcomes one fetch_book call of the watch loop can meet
WatchOutcomes ==
  { <<Answer200(BookBid(Text(0, 6000, FALSE)))>>,
    <<Answer429, Answer200(BookBid(Text(0, 5000, FALSE)))>>,
    <<Answer200(BookBid(Text(0, 4000, FALSE)))>>,
    <<Answer200(BookBid(TextNaN))>>,
    <<Answer200(BookAsk(Text(0, 4000, FALSE), Text(0, 10, FALSE)))>>,
    <<Answer200([asks |-> NoSide, bids |-> Side(<<>>)])>>,
    <<Answer200(BookBid(TextBad))>>,
    <<AnswerOther(500)>> }

\* the configurations of the watch loop: --trigger-op, --trigger-price 0.50
\* (a float), --alert-cooldown (seconds, 0 = always), credentials,
\* --interval (seconds), --once
WatchArgs ==
  { [trigger_op |-> op, trigger_price |-> FloatOf(Num(0, 5000)), alert_cooldown |-> c,
     credentials |-> cr, interval |-> 2, once |-> o]
    : op \in {">=", ">", "<=", "<"}, c \in {0, 3}, cr \in BOOLEAN, o \in BOOLEAN }

\* time.time() when the loop is entered (seconds since the epoch), and the
\* seconds a fetch_book call and a delivery can take
WatchTimes == [start |-> {1000}, fetch |-> {0, 3}, send |-> {0, 1}]

InitWatch ==
  /\ wt_args \in WatchArgs
  /\ wt_pc = "fetch"
  /\ wt_cycle = 1
  /\ wt_clock \in WatchTimes.start
  /\ wt_start_time = wt_clock
  /\ wt_details = None
  /\ wt_triggered = FALSE
  /\ wt_now = 0
  /\ wt_last_alert_ts = 0
  /\ wt_fired = <<>>
  /\ fb = FetchStart
  /\ fb_log = <<>>
  /\ ex_book = EmptyBook
  /\ ex_ask = Unset
  /\ ex_bid = Unset
  /\ ScanIdle
  /\ DiscoverIdle
  /\ MainIdle

\* book = await fetch_book(session, token_id) returns; Extract Buy1, Check
\* Trigger, and the Alert Logic up to the await of the delivery
WatchFetched ==
  /\ wt_pc = "fetch"
  /\ \E outcomes \in WatchOutcomes, d \in WatchTimes.fetch :
       LET details   == get_best_bid_details(fetch_book(outcomes))
           triggered == Triggered(wt_args, details)
           now       == wt_clock + d
       IN  /\ wt_clock' = now
           /\ wt_details' = details
           /\ wt_triggered' = triggered
           /\ wt_now' = IF triggered THEN now ELSE wt_now
           /\ wt_pc' = IF /\ triggered
                          /\ should_alert(wt_args, now, wt_last_alert_ts)
                          /\ wt_args.credentials
                       THEN "send" ELSE "sleep"
  /\ UNCHANGED <<wt_args, wt_cycle, wt_start_time, wt_last_alert_ts, wt_fired,
                 exVars, fbVars, scVars, dvVars, mnVars>>

\* await send_telegram_alert(tg_token, tg_chat_id, msg) ends;
\* last_alert_ts = now
WatchSent ==
  /\ wt_pc = "send"
  /\ \E outcome \in DeliveryOutcomes, d \in WatchTimes.send :
       /\ wt_clock' = wt_clock + d
       /\ wt_fired' = Append(wt_fired, [cycle |-> wt_cycle, now |-> wt_now,
                                        outcome |-> outcome])
       /\ IF send_telegram_alert(outcome) = "returned"
          THEN wt_last_alert_ts' = wt_now /\ wt_pc' = "sleep"
          ELSE wt_last_alert_ts' = wt_last_alert_ts /\ wt_pc' = "fatal"
  /\ UNCHANGED <<wt_args, wt_cycle, wt_start_time, wt_details, wt_triggered,
                 wt_now, exVars, fbVars, scVars, dvVars, mnVars>>

\* if args.once: break
WatchExitOnce ==
  /\ wt_pc = "sleep"
  /\ wt_args.once
  /\ wt_pc' = "exit"
  /\ UNCHANGED <<wt_args, wt_cycle, wt_clock, wt_start_time, wt_details,
                 wt_triggered, wt_now, wt_last_alert_ts, wt_fired,
                 exVars, fbVars, scVars, dvVars, mnVars>>

\* sleep_time = max(0, args.interval - elapsed); the sleep ends and the
\* next cycle starts
WatchSleep ==
  /\ wt_pc = "sleep"
  /\ ~wt_args.once
  /\ wt_cycle < MaxCycles
  /\ LET elapsed    == wt_clock - wt_start_time
         sleep_time == IF wt_args.interval - elapsed > 0
                       THEN wt_args.interval - elapsed ELSE 0
     IN  /\ wt_clock' = wt_clock + sleep_time
         /\ wt_start_time' = wt_clock + sleep_time
  /\ wt_cycle' = wt_cycle + 1
  /\ wt_pc' = "fetch"
  /\ UNCHANGED <<wt_args, wt_details, wt_triggered, wt_now, wt_last_alert_ts,
                 wt_fired, exVars, fbVars, scVars, dvVars, mnVars>>

NextWatch ==
  \/ WatchFetched
  \/ WatchSent
  \/ WatchExitOnce
  \/ WatchSleep

SpecWatch == InitWatch /\ [][NextWatch]_vars

\* ------------------------------- specification: the two polling loops
SpecLoops == (InitOutput \/ InitWatch) /\ [][NextScan \/ NextWatch]_vars

\* ---------------------------------------------------------- discover_markets
\* LIMIT = 100: the page size of the events API
LIMIT == 100

\* json.loads(x) of a field of a market: the document a JSON text denotes;
\* a text that is no JSON raises JSONDecodeError, a value that is no string
\* (null, a list) raises TypeError; market.get(key, '[]') reads a missing
\* key as the text of the empty array
JsonLoads(raw) ==
  CASE raw.k = "text"    -> raw.doc
    [] raw.k = "missing" -> [k |-> "array", items |-> <<>>]
    [] OTHER             -> Raise

\* str.lower() on the labels of the model
Lower(s) ==
  CASE s \in {"Yes", "YES", "yes"} -> "yes"
    [] s \in {"No", "NO", "no"}    -> "no"
    [] s = "Up"                    -> "up"
    [] s = "Down"                  -> "down"
    [] OTHER                       -> s

\* a token assignment that takes index 0 for yes whatever the labels say
MarketInfoByIndex(market, clob_token_ids, outcomes) ==
  [market_slug |-> market.market_slug,
   yes_token_id |-> clob_token_ids.items[1],
   no_token_id |-> clob_token_ids.items[2],
   yes_outcome |-> outcomes.items[1],
   no_outcome |-> outcomes.items[2]]

\* Heuristic to assign Yes/No: if outcome_0.lower() == "yes": ...
\* elif outcome_1.lower() == "yes": ... else: ...; market_info = {...}
MarketInfo(market, clob_token_ids, outcomes) ==
  LET outcome_0 == outcomes.items[1]
      outcome_1 == outcomes.items[2]
      token_0   == clob_token_ids.items[1]
      token_1   == clob_token_ids.items[2]
      swap      == Lower(outcome_0) # "yes" /\ Lower(outcome_1) = "yes"
  IN  [market_slug |-> market.market_slug,
       yes_token_id |-> IF swap THEN token_1 ELSE token_0,
       no_token_id |-> IF swap THEN token_0 ELSE token_1,
       yes_outcome |-> outcome_0,
       no_outcome |-> outcome_1]

\* a body of the market loop that takes the first two elements of arrays of
\* any length
ExaminedFirstTwo(market) ==
  LET clob_token_ids == JsonLoads(market.clobTokenIds)
      outcomes       == JsonLoads(market.outcomes)
  IN  IF clob_token_ids.k = "raise" \/ outcomes.k = "raise" THEN <<>>
      ELSE IF /\ clob_token_ids.k = "array" /\ Len(clob_token_ids.items) >= 2
              /\ outcomes.k = "array" /\ Len(outcomes.items) >= 2
           THEN <<MarketInfo(market, clob_token_ids, outcomes)>>
           ELSE <<>>

\* the body of `for market in event_markets`: what it appends to
\* discovered_markets
Examined(market) ==
  LET clob_token_ids == JsonLoads(market.clobTokenIds)
      outcomes       == JsonLoads(market.outcomes)
  IN  IF clob_token_ids.k = "raise" \/ outcomes.k = "raise" THEN <<>>
      ELSE IF /\ clob_token_ids.k = "array" /\ Len(clob_token_ids.items) = 2
              /\ outcomes.k = "array" /\ Len(outcomes.items) = 2
           THEN <<MarketInfo(market, clob_token_ids, outcomes)>>
           ELSE <<>>

\* max_events and len(discovered_markets) >= max_events
LimitReached(max_events, discovered_markets) ==
  max_events # 0 /\ Len(discovered_markets) >= max_events

\* a handler that goes round the loop again after a failed request
DiscoveryFailedRetry == "top"

\* except Exception as e: logging.error(...); break
DiscoveryFailed == "returned"

\* ------------------------------------------ specification: discover_markets
\* the text of a JSON array of strings
ArrayText(items) == [k |-> "text", doc |-> [k |-> "array", items |-> items]]

\* the markets the API nests in an event, by the two fields discovery reads:
\* well-formed pairs with the labels in several spellings and orders, a
\* text that is no JSON, arrays of 1 and 3, a JSON object, null, no key
MarketKinds ==
  [ YesNo   |-> [clobTokenIds |-> ArrayText(<<"A", "B">>),
                 outcomes |-> ArrayText(<<"Yes", "No">>)],
    NoYes   |-> [clobTokenIds |-> ArrayText(<<"A", "B">>),
                 outcomes |-> ArrayText(<<"No", "YES">>)],
    UpDown  |-> [clobTokenIds |-> ArrayText(<<"A", "B">>),
                 outcomes |-> ArrayText(<<"Up", "Down">>)],
    YesYes  |-> [clobTokenIds |-> ArrayText(<<"A", "B">>),
                 outcomes |-> ArrayText(<<"yes", "Yes">>)],
    Garbage |-> [clobTokenIds |-> [k |-> "garbage"],
                 outcomes |-> ArrayText(<<"Yes", "No">>)],
    Three   |-> [clobTokenIds |-> ArrayText(<<"A", "B">>),
                 outcomes |-> ArrayText(<<"Yes", "No", "Up">>)],
    One     |-> [clobTokenIds |-> ArrayText(<<"A">>),
                 outcomes |-> ArrayText(<<"Yes", "No">>)],
    Object  |-> [clobTokenIds |-> ArrayText(<<"A", "B">>),
                 outcomes |-> [k |-> "text", doc |-> [k |-> "object"]]],
    Null    |-> [clobTokenIds |-> [k |-> "notstr"],
                 outcomes |-> ArrayText(<<"Yes", "No">>)],
    NoKey   |-> [clobTokenIds |-> ArrayText(<<"A", "B">>),
                 outcomes |-> [k |-> "missing"]] ]

\* the pages of events the API serves: each event is the list of its markets
PageShapes ==
  { << <<"YesNo">> >>,
    << <<"UpDown", "Three", "YesYes">> >>,
    << <<"Garbage", "NoYes">>, <<"YesNo">> >>,
    << <<"Null", "One">>, <<"Object", "YesNo", "NoKey", "NoYes">> >>,
    << <<>>, <<"YesYes", "UpDown">> >> }

\* a page without events
EmptyPage == [k |-> "page", shape |-> <<>>, full |-> FALSE]

\* what a GET of a page ends in: the events of a shape, the page being full
\* (LIMIT events, the further ones without markets) or as short as the
\* shape; no event at all; or a failure (transport error, error status,
\* undecodable body)
Responses ==
  { [k |-> "page", shape |-> s, full |-> f] : s \in PageShapes, f \in BOOLEAN }
  \cup { EmptyPage, [k |-> "fail"] }

\* len(events) of a response
LengthOf(resp) == IF resp.full THEN LIMIT ELSE Len(resp.shape)

\* the events of the page p, every market with a slug of its own
EventsOf(resp, p) ==
  [e \in 1..Len(resp.shape) |->
     [m \in 1..Len(resp.shape[e]) |->
        [market_slug |-> <<p, e, m>>,
         clobTokenIds |-> MarketKinds[resp.shape[e][m]].clobTokenIds,
         outcomes |-> MarketKinds[resp.shape[e][m]].outcomes]]]

\* the answer to the GET at an offset: past the last page, no events
ServerAt(server, offset) ==
  LET p == (offset \div LIMIT) + 1
  IN  IF p <= Len(server) THEN server[p] ELSE EmptyPage

\* max_events: None (0), or a positive limit
MaxEventsArgs == {0, 1, 2, 3}

InitDiscover ==
  /\ dv_server \in UNION {[1..n -> Responses] : n \in 1..MaxPages}
  /\ dv_max_events \in MaxEventsArgs
  /\ dv_pc = "top"
  /\ dv_offset = 0
  /\ dv_markets = <<>>
  /\ dv_events = <<>>
  /\ dv_length = 0
  /\ dv_pending = <<>>
  /\ dv_requests = <<>>
  /\ fb = FetchStart
  /\ fb_log = <<>>
  /\ ex_book = EmptyBook
  /\ ex_ask = Unset
  /\ ex_bid = Unset
  /\ ScanIdle
  /\ WatchIdle
  /\ MainIdle

\* while True: if max_events and len(discovered_markets) >= max_events: break
LimitAtTop ==
  /\ dv_pc = "top"
  /\ LimitReached(dv_max_events, dv_markets)
  /\ dv_pc' = "returned"
  /\ UNCHANGED <<dv_server, dv_max_events, dv_offset, dv_markets, dv_events,
                 dv_length, dv_pending, dv_requests, exVars, fbVars, scVars, wtVars, mnVars>>

\* resp = self.session.get(...); resp.raise_for_status(); events = resp.json()
\* one of them raises
PageFails ==
  /\ dv_pc = "top"
  /\ ~LimitReached(dv_max_events, dv_markets)
  /\ ServerAt(dv_server, dv_offset).k = "fail"
  /\ dv_requests' = Append(dv_requests, dv_offset)
  /\ dv_pc' = DiscoveryFailed
  /\ UNCHANGED <<dv_server, dv_max_events, dv_offset, dv_markets, dv_events,
                 dv_length, dv_pending, exVars, fbVars, scVars, wtVars, mnVars>>

\* the GET answers; if not events: break
PageServed ==
  /\ dv_pc = "top"
  /\ ~LimitReached(dv_max_events, dv_markets)
  /\ LET resp == ServerAt(dv_server, dv_offset)
     IN  /\ resp.k = "page"
         /\ dv_requests' = Append(dv_requests, dv_offset)
         /\ dv_events' = EventsOf(resp, Len(dv_requests) + 1)
         /\ dv_length' = LengthOf(resp)
         /\ dv_pc' = IF LengthOf(resp) = 0 THEN "returned" ELSE "events"
  /\ UNCHANGED <<dv_server, dv_max_events, dv_offset, dv_markets, dv_pending,
                 exVars, fbVars, scVars, wtVars, mnVars>>

\* for event in events: the events are exhausted (those a full page has
\* beyond its shape carry no market), or
\* if max_events and len(discovered_markets) >= max_events: break
LeaveEvents ==
  /\ dv_pc = "events"
  /\ dv_events = <<>> \/ LimitReached(dv_max_events, dv_markets)
  /\ dv_pc' = "paginate"
  /\ UNCHANGED <<dv_server, dv_max_events, dv_offset, dv_markets, dv_events,
                 dv_length, dv_pending, dv_requests, exVars, fbVars, scVars, wtVars,
                 mnVars>>

\* event_markets = event.get('markets', [])
TakeEvent ==
  /\ dv_pc = "events"
  /\ dv_events # <<>>
  /\ ~LimitReached(dv_max_events, dv_markets)
  /\ dv_pending' = Head(dv_events)
  /\ dv_events' = Tail(dv_events)
  /\ dv_pc' = IF Head(dv_events) = <<>> THEN "events" ELSE "markets"
  /\ UNCHANGED <<dv_server, dv_max_events, dv_offset, dv_markets, dv_length,
                 dv_requests, exVars, fbVars, scVars, wtVars, mnVars>>

\* for market in event_markets: one market is examined
ExamineMarket ==
  /\ dv_pc = "markets"
  /\ dv_markets' = dv_markets \o Examined(Head(dv_pending))
  /\ dv_pending' = Tail(dv_pending)
  /\ dv_pc' = IF Tail(dv_pending) = <<>> THEN "events" ELSE "markets"
  /\ UNCHANGED <<dv_server, dv_max_events, dv_offset, dv_events, dv_length,
                 dv_requests, exVars, fbVars, scVars, wtVars, mnVars>>

\* Pagination logic: if len(events) < LIMIT: break; offset += LIMIT
Paginate ==
  /\ dv_pc = "paginate"
  /\ IF dv_length < LIMIT
     THEN dv_pc' = "returned" /\ dv_offset' = dv_offset
     ELSE dv_pc' = "top" /\ dv_offset' = dv_offset + LIMIT
  /\ UNCHANGED <<dv_server, dv_max_events, dv_markets, dv_events, dv_length,
                 dv_pending, dv_requests, exVars, fbVars, scVars, wtVars, mnVars>>

NextDiscover ==
  \/ LimitAtTop
  \/ PageFails
  \/ PageServed
  \/ LeaveEvents
  \/ TakeEvent
  \/ ExamineMarket
  \/ Paginate

SpecDiscover == InitDiscover /\ [][NextDiscover]_vars

\* ------------------------------------------------------ specification: main
\* whether a venv is active, --list-markets, --test-telegram, --watch-index
\* (None when not given), and whether --side and a non-zero --trigger-price
\* are given
MainArgs ==
  [venv : BOOLEAN, list_markets : BOOLEAN, test_telegram : BOOLEAN,
   watch_index : {None} \cup {[k |-> "int", v |-> i] : i \in -1..MaxMarkets},
   side : BOOLEAN, trigger_price : BOOLEAN]

InitMain ==
  /\ mn_args \in MainArgs
  /\ mn_found \in 0..MaxMarkets
  /\ mn_pc = "start"
  /\ mn_exit = "none"
  /\ mn_cycles = 0
  /\ fb = FetchStart
  /\ fb_log = <<>>
  /\ ex_book = EmptyBook
  /\ ex_ask = Unset
  /\ ex_bid = Unset
  /\ ScanIdle
  /\ WatchIdle
  /\ DiscoverIdle

\* main: the venv test (sys.exit(1)), then the mode: 1. List Markets,
\* 2. Test Telegram (returns), 3. Watch or Scan
MainDispatch ==
  /\ mn_pc = "start"
  /\ mn_pc' = CASE ~mn_args.venv                 -> "exited"
                [] mn_args.list_markets          -> "list"
                [] mn_args.test_telegram         -> "exited"
                [] mn_args.watch_index # None -> "watch"
                [] OTHER                         -> "scan"
  /\ mn_exit' = CASE ~mn_args.venv                                   -> "nonzero"
                  [] ~mn_args.list_markets /\ mn_args.test_telegram  -> "zero"
                  [] OTHER                                           -> mn_exit
  /\ UNCHANGED <<mn_args, mn_found, mn_cycles, exVars, fbVars, scVars, wtVars,
                 dvVars>>

\* markets = discover_and_sort_markets(args); if not markets: ...; return
\* print_market_list(markets); return
ListMarkets ==
  /\ mn_pc = "list"
  /\ mn_pc' = "exited"
  /\ mn_exit' = "zero"
  /\ UNCHANGED <<mn_args, mn_found, mn_cycles, exVars, fbVars, scVars, wtVars,
                 dvVars>>

\* run_watch_mode: 1. Discovery: if not markets: sys.exit(1); 2. Validation:
\* the index, then --side and --trigger-price: sys.exit(1)
WatchStartup ==
  /\ mn_pc = "watch"
  /\ LET fatal == \/ mn_found = 0
                  \/ mn_args.watch_index.v < 0
                  \/ mn_args.watch_index.v >= mn_found
                  \/ ~mn_args.side
                  \/ ~mn_args.trigger_price
     IN  /\ mn_pc' = IF fatal THEN "exited" ELSE "loop"
         /\ mn_exit' = IF fatal THEN "nonzero" ELSE mn_exit
  /\ UNCHANGED <<mn_args, mn_found, mn_cycles, exVars, fbVars, scVars, wtVars,
                 dvVars>>

\* run_fetcher: 1. Discovery Phase: if not markets: logger.error(...); return
ScanStartup ==
  /\ mn_pc = "scan"
  /\ mn_pc' = IF mn_found = 0 THEN "exited" ELSE "loop"
  /\ mn_exit' = IF mn_found = 0 THEN "zero" ELSE mn_exit
  /\ UNCHANGED <<mn_args, mn_found, mn_cycles, exVars, fbVars, scVars, wtVars,
                 dvVars>>

\* one poll cycle of the loop that was entered
PollCycle ==
  /\ mn_pc = "loop"
  /\ mn_cycles < MaxCycles
  /\ mn_cycles' = mn_cycles + 1
  /\ UNCHANGED <<mn_args, mn_found, mn_pc, mn_exit, exVars, fbVars, scVars,
                 wtVars, dvVars>>

\* the loop ends after a cycle (--once, or KeyboardInterrupt: "Stopped by
\* user.") and main returns
LoopEnds ==
  /\ mn_pc = "loop"
  /\ mn_cycles >= 1
  /\ mn_pc' = "exited"
  /\ mn_exit' = "zero"
  /\ UNCHANGED <<mn_args, mn_found, mn_cycles, exVars, fbVars, scVars, wtVars,
                 dvVars>>

NextMain ==
  \/ MainDispatch
  \/ ListMarkets
  \/ WatchStartup
  \/ ScanStartup
  \/ PollCycle
  \/ LoopEnds

SpecMain == InitMain /\ [][NextMain]_vars

\* ------------------------------------------------ claims on the extraction
\* the value a well-formed text denotes
ValueOf(text) == [k |-> "num", hi |-> text.hi, lo |-> text.lo]

ValueLess(a, b) == a.hi < b.hi \/ (a.hi = b.hi /\ a.lo < b.lo)

IsNumText(text) == text.k = "num"

WellFormedSide(side) ==
  /\ side.present
  /\ side.orders # <<>>
  /\ \A i \in 1..Len(side.orders) :
        IsNumText(side.orders[i].price) /\ IsNumText(side.orders[i].size)

MalformedSide(side) ==
  /\ side.present
  /\ \E i \in 1..Len(side.orders) :
        ~IsNumText(side.orders[i].price) \/ ~IsNumText(side.orders[i].size)

\* the sum of the sizes of a list of entries, without any rounding
RECURSIVE ExactSum(_)
ExactSum(es) ==
  IF es = <<>> THEN [k |-> "num", hi |-> 0, lo |-> 0]
  ELSE LET rest == ExactSum(SubSeq(es, 1, Len(es) - 1))
           last == es[Len(es)].size
           l    == rest.lo + last.lo
       IN  [k |-> "num", hi |-> rest.hi + last.hi + (l \div 100000), lo |-> l % 100000]

\* the sum of the sizes of a list of entries, each partial sum rounded
\* half-even to ten digits
RECURSIVE ContextSum(_)
ContextSum(es) ==
  IF es = <<>> THEN [k |-> "num", hi |-> 0, lo |-> 0]
  ELSE DecAdd(ContextSum(SubSeq(es, 1, Len(es) - 1)), ValueOf(es[Len(es)].size))

\* the price and the entries of the best level of a well-formed side
BestLevelOf(side, d, isAsk) ==
  /\ d.k = "level"
  /\ \E i \in 1..Len(side.orders) : ValueOf(side.orders[i].price) = d.price
  /\ \A i \in 1..Len(side.orders) :
        IF isAsk THEN ~ValueLess(ValueOf(side.orders[i].price), d.price)
                 ELSE ~ValueLess(d.price, ValueOf(side.orders[i].price))
  /\ d.entries = SelectSeq(side.orders, LAMBDA o : ValueOf(o.price) = d.price)

\* no partial sum of the sizes, taken in order, needs more than ten digits
FitsContext(es) == \A n \in 1..Len(es) : ExactSum(SubSeq(es, 1, n)).hi < 100000

\* C4 as amended: for every non-empty well-formed side, extraction returns
\* (p, s, E) with p the minimum price for asks and the maximum for bids, E
\* exactly the entries priced p, and s the sum of the sizes of E accumulated
\* in order in ten-digit decimal arithmetic: the exact sum whenever no
\* partial sum needs more than ten digits.
C4_BestLevelContextSum ==
  /\ (ex_ask # Unset /\ WellFormedSide(ex_book.asks)) =>
        /\ BestLevelOf(ex_book.asks, ex_ask, TRUE)
        /\ ex_ask.size = ContextSum(ex_ask.entries)
        /\ FitsContext(ex_ask.entries) => ex_ask.size = ExactSum(ex_ask.entries)
  /\ (ex_bid # Unset /\ WellFormedSide(ex_book.bids)) =>
        /\ BestLevelOf(ex_book.bids, ex_bid, FALSE)
        /\ ex_bid.size = ContextSum(ex_bid.entries)
        /\ FitsContext(ex_bid.entries) => ex_bid.size = ExactSum(ex_bid.entries)

\* C4 as stated: s is the sum of the sizes of the entries of E, whatever
\* their magnitude.
C4_BestLevelExactSum ==
  /\ (ex_ask # Unset /\ WellFormedSide(ex_book.asks)) =>
        /\ BestLevelOf(ex_book.asks, ex_ask, TRUE)
        /\ ex_ask.size = ExactSum(ex_ask.entries)
  /\ (ex_bid # Unset /\ WellFormedSide(ex_book.bids)) =>
        /\ BestLevelOf(ex_book.bids, ex_bid, FALSE)
        /\ ex_bid.size = ExactSum(ex_bid.entries)

\* C4 witness: asks at 0.40, 0.40, 0.55 with sizes 10, 5, 5 were extracted
\* as price 0.40, size 15, two entries
C4_Witness ==
  /\ ex_book.asks.present
  /\ Len(ex_book.asks.orders) = 3
  /\ WellFormedSide(ex_book.asks)
  /\ ex_ask.k = "level"
  /\ ex_ask.price = [k |-> "num", hi |-> 0, lo |-> 4000]
  /\ ex_ask.size = [k |-> "num", hi |-> 0, lo |-> 15]
  /\ Len(ex_ask.entries) = 2
  /\ ex_ask.entries[1].price # ex_ask.entries[2].price

\* C5: when the requested side key is missing or its list is empty (the
\* empty mapping of an exhausted fetch included), best-ask and best-bid
\* extraction return None, never a level.
C5_AbsentOnMissingOrEmpty ==
  /\ (ex_ask # Unset /\ (~ex_book.asks.present \/ ex_book.asks.orders = <<>>))
        => ex_ask = None
  /\ (ex_bid # Unset /\ (~ex_book.bids.present \/ ex_book.bids.orders = <<>>))
        => ex_bid = None

\* C5 witness: both extractions ran on the empty mapping
C5_Witness ==
  /\ ex_book = EmptyBook
  /\ ex_ask = None
  /\ ex_bid = None

\* C6 as stated: if any entry of the requested side has a missing or
\* non-numeric price or size, extraction returns None for the whole book.
C6_MalformedIsAbsent ==
  /\ (ex_ask # Unset /\ MalformedSide(ex_book.asks)) => ex_ask = None
  /\ (ex_bid # Unset /\ MalformedSide(ex_book.bids)) => ex_bid = None

\* -------------------------------------------------- claims on fetch_book
\* the attempts that ended in a backoff wait
BackedOff == {i \in 1..Len(fb_log) : fb_log[i].kind \in {"ratelimit", "exc", "timeout", "badjson"}}

\* C1: fetch_book never raises; for every sequence of HTTP outcomes it makes
\* at most 3 HTTP attempts and then returns; when no attempt answered 200 it
\* returns the empty mapping.
C1_FetchNeverRaises ==
  /\ fb.pc # "raised"
  /\ Len(fb_log) <= 3
  /\ fb.attempt = Len(fb_log)
  /\ (Len(fb_log) = 3 => fb.pc = "ret")
  /\ (fb.pc = "ret" /\ \A i \in 1..Len(fb_log) : fb_log[i].status # 200)
        => fb.result = EmptyBook

\* C1 witness: a 429, a timeout and a transport error used up the three
\* attempts and the call returned the empty mapping
C1_Witness ==
  /\ fb.pc = "ret"
  /\ Len(fb_log) = 3
  /\ fb_log[1].kind = "ratelimit"
  /\ fb_log[2].kind = "timeout"
  /\ fb_log[3].kind = "exc"
  /\ fb.result = EmptyBook

\* C2 as stated: a status other than 200 and 429 on an attempt that is not
\* the last is followed by a backoff wait and another attempt; the empty
\* book is not returned before all 3 attempts were used.
C2_OtherStatusRetried ==
  (fb.pc = "ret" /\ fb_log # <<>> /\ fb_log[Len(fb_log)].kind = "other")
    => Len(fb_log) = 3

\* C2 as amended: a status other than 200 and 429 ends the call at once:
\* fetch_book returns the empty mapping without a backoff wait for that
\* attempt and without another attempt, whatever the number of attempts left.
C2_OtherStatusReturnsAtOnce ==
  \A i \in 1..Len(fb_log) :
    fb_log[i].kind = "other" =>
      /\ i = Len(fb_log)
      /\ fb.pc = "ret"
      /\ fb.result = EmptyBook
      /\ Len(fb.waits) = i - 1

\* C2 witness: the first attempt answered 500 and the call returned the
\* empty mapping after that single attempt
C2_Witness ==
  /\ Len(fb_log) = 1
  /\ fb_log[1].kind = "other"
  /\ fb_log[1].status = 500
  /\ fb.pc = "ret"
  /\ fb.result = EmptyBook
  /\ fb.waits = <<>>

\* C3: the backoff wait after the k-th failed attempt (429 answers and
\* exceptions counted together) is 500ms * 2^(k-1).
C3_BackoffDoubles ==
  /\ Len(fb.waits) = Cardinality(BackedOff)
  /\ \A k \in 1..Len(fb.waits) : fb.waits[k] = 500 * (2 ^ (k - 1))

\* C3 witness: a 429, an exception and a 429 were followed by waits of
\* 500ms, 1000ms and 2000ms
C3_Witness ==
  /\ Len(fb_log) = 3
  /\ fb_log[1].kind = "ratelimit"
  /\ fb_log[2].kind = "exc"
  /\ fb_log[3].kind = "ratelimit"
  /\ fb.waits = <<500, 1000, 2000>>

\* ------------------------------------------------ claims on the scan loop
\* the sum of two floats that hold prices
PriceSum(a, b) ==
  IF a.k = "fnan" \/ b.k = "fnan" THEN [k |-> "fnan"]
  ELSE [k |-> "float", hi |-> a.hi + b.hi + ((a.lo + b.lo) \div 100000),
        lo |-> (a.lo + b.lo) % 100000]

\* a is a number strictly below the number b
StrictlyBelow(a, b) ==
  a.k = "float" /\ b.k = "float" /\ (a.hi < b.hi \/ (a.hi = b.hi /\ a.lo < b.lo))

\* the tasks that returned a metrics record
Produced == {i \in 1..Len(sc_task) : sc_task[i].pc = "done" /\ sc_task[i].ret # None}

\* C7: in every metrics record of process_market, sum_flag is defined iff
\* both best asks are defined, and then is their sum; each ask and each
\* notional is defined exactly when the level of its own book is present.
C7_SumFlagIffBothAsks ==
  \A i \in Produced :
    LET r   == sc_task[i].ret
        yes == get_best_ask_details(sc_task[i].yes.book)
        no  == get_best_ask_details(sc_task[i].no.book)
    IN  /\ (r.yes_ask # None) <=> (yes # None)
        /\ (r.no_ask # None) <=> (no # None)
        /\ (r.sum_flag # None) <=> (r.yes_ask # None /\ r.no_ask # None)
        /\ r.sum_flag # None => r.sum_flag = PriceSum(r.yes_ask, r.no_ask)
        /\ (r.yes_ask_notional_usd # None) <=> (yes # None)
        /\ (r.no_ask_notional_usd # None) <=> (no # None)

\* C7 witness: one record with both asks (0.40 + 0.55 = 0.95) and one record
\* whose no book gave no level, with an absent sum_flag
C7_Witness ==
  /\ Len(sc_task) = 2
  /\ Produced = {1, 2}
  /\ sc_task[1].ret.sum_flag = [k |-> "float", hi |-> 0, lo |-> 9500]
  /\ sc_task[2].ret.yes_ask = [k |-> "float", hi |-> 0, lo |-> 4000]
  /\ sc_task[2].ret.no_ask = None
  /\ sc_task[2].ret.sum_flag = None
  /\ sc_task[2].ret.yes_ask_notional_usd # None
  /\ sc_task[2].ret.no_ask_notional_usd = None

\* the markets without a yes token id or without a no token id
Tokenless == {i \in 1..Len(sc_markets) :
                sc_markets[i].yes_token_id = "" \/ sc_markets[i].no_token_id = ""}

\* C8: process_market returns None at once for a market whose yes or no
\* token id is missing or empty: no fetch is issued for either token and the
\* market contributes no record to the results of the cycle.
C8_TokenlessMarketSkipped ==
  \A i \in Tokenless :
    /\ sc_task[i].pc \in {"created", "done"}
    /\ sc_task[i].yes.st = "idle"
    /\ sc_task[i].no.st = "idle"
    /\ sc_task[i].ret = None
    /\ \A j \in 1..Len(sc_results) : sc_results[j].market_slug # i

\* C8 witness: the first market has a yes token but no no token and was
\* skipped; the second was fetched and is the only record of the results
C8_Witness ==
  /\ Len(sc_markets) = 2
  /\ sc_markets[1].yes_token_id # ""
  /\ sc_markets[1].no_token_id = ""
  /\ sc_task[1].pc = "done"
  /\ sc_pc = "select"
  /\ Len(sc_results) = 1
  /\ sc_results[1].market_slug = 2

Selected == sc_pc \in {"alert", "sleep", "exit"}

\* the positions of the results whose sum_flag is defined
Valid == {j \in 1..Len(sc_results) : sc_results[j].sum_flag # None}

\* C9 as stated: at the end of a cycle the best market is the record with
\* the minimal sum_flag among the records with a defined sum_flag, the
\* earliest of them on a tie; it is undefined when no record has a defined
\* sum_flag; a record with an absent sum_flag is never selected.
C9_BestIsFirstMinimum ==
  Selected =>
    IF Valid = {} THEN sc_best = None
    ELSE \E j \in Valid :
           /\ sc_best = sc_results[j]
           /\ \A m \in Valid : ~StrictlyBelow(sc_results[m].sum_flag, sc_results[j].sum_flag)
           /\ \A m \in Valid : sc_results[m].sum_flag = sc_results[j].sum_flag => j <= m
           /\ \A m \in Valid : m # j =>
                \/ StrictlyBelow(sc_results[j].sum_flag, sc_results[m].sum_flag)
                \/ sc_results[j].sum_flag = sc_results[m].sum_flag

\* C10: in every cycle at most one alert delivery is attempted, and only if
\* a best market exists whose sum_flag is strictly below the threshold; a
\* cycle with a threshold, credentials and a best sum_flag below the
\* threshold attempts exactly one.
C10_OneAlertBelowThreshold ==
  /\ Len(sc_alerts) <= 1
  /\ Len(sc_alerts) = 1 =>
       /\ sc_args.alert_sum_threshold # None
       /\ sc_best # None
       /\ StrictlyBelow(sc_best.sum_flag, sc_args.alert_sum_threshold)
  /\ (/\ sc_pc \in {"sleep", "exit"}
      /\ sc_args.alert_sum_threshold # None
      /\ sc_args.credentials
      /\ sc_best # None
      /\ StrictlyBelow(sc_best.sum_flag, sc_args.alert_sum_threshold))
       => Len(sc_alerts) = 1

\* C10 witness: in the second cycle the best sum 0.80 was below the
\* threshold 0.95 and one delivery was attempted
C10_Witness ==
  /\ sc_cycle = 2
  /\ sc_pc = "sleep"
  /\ sc_best # None
  /\ sc_best.sum_flag = [k |-> "float", hi |-> 0, lo |-> 8000]
  /\ sc_args.alert_sum_threshold = [k |-> "float", hi |-> 0, lo |-> 9500]
  /\ Len(sc_alerts) = 1

\* ------------------------------------------------ claims on the watch loop
\* the alert of the current cycle, once its Alert Logic has run
FiredThisCycle == \E k \in 1..Len(wt_fired) : wt_fired[k].cycle = wt_cycle

\* C11: in watch mode with a cooldown c > 0 any two alerts that were fired
\* are at least c seconds apart; with a cooldown of 0 every cycle whose
\* trigger holds, with credentials configured, fires an alert
C11_CooldownSpacesAlerts ==
  /\ wt_args.alert_cooldown > 0 =>
       \A i, j \in 1..Len(wt_fired) :
         i < j => wt_fired[j].now - wt_fired[i].now >= wt_args.alert_cooldown
  /\ ( /\ wt_args.alert_cooldown = 0
       /\ wt_args.credentials
       /\ wt_triggered
       /\ wt_pc \in {"sleep", "exit"} ) => FiredThisCycle

\* two alerts fired under a positive cooldown
C11_Witness == wt_args.alert_cooldown > 0 /\ Len(wt_fired) >= 2

\* ------------------------------------------- claims on the alert delivery
\* C12: a delivery that fails (exception of the transport, timeout, a
\* status other than 200) is not retried within the cycle (at most one
\* attempt per cycle) and never ends the polling loop: neither loop dies,
\* the cycle goes on to its end, and in loop mode the step into the next
\* cycle is possible whatever the outcome of the delivery was
C12_FailedDeliveryKeepsLoop ==
  /\ sc_pc # "fatal"
  /\ wt_pc # "fatal"
  /\ Len(sc_alerts) <= 1
  /\ \A i, j \in 1..Len(wt_fired) : wt_fired[i].cycle = wt_fired[j].cycle => i = j
  /\ sc_alerts # <<>> => sc_pc \in {"sleep", "exit"}
  /\ (wt_pc # "send" /\ FiredThisCycle) => wt_pc \in {"sleep", "exit"}
  /\ (sc_pc = "sleep" /\ ~sc_args.once /\ sc_cycle < MaxCycles) => ENABLED NextCycle
  /\ (wt_pc = "sleep" /\ ~wt_args.once /\ wt_cycle < MaxCycles) => ENABLED WatchSleep

\* the watch loop sent a second alert in the cycle after one whose delivery
\* failed
C12_Witness ==
  /\ Len(wt_fired) = 2
  /\ wt_fired[1].outcome = "failed"
  /\ wt_fired[1].cycle = 1
  /\ wt_fired[2].cycle = 2

\* ------------------------------------------- claims on the output file
IsPrefix(s, t) == Len(s) <= Len(t) /\ SubSeq(t, 1, Len(s)) = s

\* the Output step of a cycle, with an output path configured
OutputStep == sc_pc = "select" /\ sc_pc' = "alert" /\ sc_args.out # None

\* the lines after those the file held before the step
LinesAfter(before, after) == SubSeq(after.lines, Len(before.lines) + 1, Len(after.lines))

\* the first lines are the metrics lines of the records, in order
RecordLines(new, results) ==
  /\ Len(new) >= Len(results)
  /\ \A i \in 1..Len(results) :
       new[i].type = "metrics" /\ new[i].market_slug = results[i].market_slug

\* C13 as stated: every cycle appends one line per metrics record plus
\* exactly one best_market summary line, also when no market has a defined
\* sum_flag
C13_AlwaysOneSummaryLine ==
  [][OutputStep =>
       LET new == LinesAfter(sc_file, sc_file')
       IN  /\ RecordLines(new, sc_results)
           /\ Len(new) = Len(sc_results) + 1
           /\ new[Len(new)].type = "best_market"]_vars

\* C13: every cycle appends one line per metrics record, in the order of
\* results, followed by one best_market summary line exactly when some
\* record has a defined sum_flag; a cycle without one appends the record
\* lines only
C13_SummaryLineIffBestMarket ==
  [][OutputStep =>
       LET new == LinesAfter(sc_file, sc_file')
           n   == Len(sc_results)
       IN  /\ RecordLines(new, sc_results)
           /\ IF \E i \in 1..n : sc_results[i].sum_flag # None
              THEN Len(new) = n + 1 /\ new[n + 1].type = "best_market"
              ELSE Len(new) = n]_vars

\* a cycle wrote its record lines and, having no best market, no summary
C13_Witness ==
  /\ sc_pc = "alert"
  /\ sc_args.out # None
  /\ sc_best = None
  /\ sc_results # <<>>
  /\ Len(sc_file.lines) >= Len(sc_results)
  /\ sc_file.lines[Len(sc_file.lines)].type = "metrics"
  /\ sc_file.lines[Len(sc_file.lines)].market_slug # 0

\* C14: the output file is append-only: after every step its content has
\* the content before the step as a prefix, the content left by an earlier
\* run included, and the file is never removed
C14_AppendOnly ==
  [][/\ IsPrefix(sc_file.lines, sc_file'.lines)
     /\ sc_file.exists => sc_file'.exists]_vars

\* the second cycle has appended after the line of an earlier run and the
\* lines of the first cycle
C14_Witness ==
  /\ sc_cycle = 2
  /\ sc_pc = "alert"
  /\ Len(sc_file.lines) >= 3
  /\ sc_file.lines[1].market_slug = 0

\* ------------------------------------------------- claims on the discovery
\* the response to the latest GET
LastResponse == ServerAt(dv_server, dv_requests[Len(dv_requests)])

\* max_events is a positive limit and that many markets are collected
LimitHit == dv_max_events > 0 /\ Len(dv_markets) >= dv_max_events

\* C15: no page is requested after the first page that is empty or has
\* fewer than 100 events, and from the moment the number of collected
\* markets is at least max_events no further page is requested and no
\* further market is collected
C15_StopsAtOnce ==
  [][/\ dv_requests' # dv_requests =>
          (dv_requests = <<>> \/ LengthOf(LastResponse) = LIMIT)
     /\ LimitHit => (dv_requests' = dv_requests /\ dv_markets' = dv_markets)]_vars

\* C16: with a positive max_events the list discover_markets returns has
\* at most max_events markets
C16_AtMostMaxEvents ==
  (dv_pc = "returned" /\ dv_max_events > 0) => Len(dv_markets) <= dv_max_events

\* the raw market the API served under a slug <<page, event, market>>
RawAt(slug) == MarketKinds[dv_server[slug[1]].shape[slug[2]][slug[3]]]

\* the field is a text that denotes a JSON array of exactly 2 elements
DenotesPair(raw) ==
  raw.k = "text" /\ raw.doc.k = "array" /\ Len(raw.doc.items) = 2

RECURSIVE Flat(_)
Flat(ss) == IF ss = <<>> THEN <<>> ELSE Head(ss) \o Flat(Tail(ss))

\* the slugs of all markets of the pages served so far, in the order of
\* the pages, events and markets
ServedSlugs ==
  Flat([p \in 1..Len(dv_requests) |->
          IF p <= Len(dv_server) /\ dv_server[p].k = "page"
          THEN Flat([e \in 1..Len(dv_server[p].shape) |->
                       [m \in 1..Len(dv_server[p].shape[e]) |-> <<p, e, m>>]])
          ELSE <<>>])

\* the served markets whose two fields both denote pairs
PairSlugs ==
  SelectSeq(ServedSlugs,
            LAMBDA s : DenotesPair(RawAt(s).clobTokenIds) /\ DenotesPair(RawAt(s).outcomes))

DiscoveredSlugs == [i \in 1..Len(dv_markets) |-> dv_markets[i].market_slug]

\* C17: a nested market is added to the result exactly when clobTokenIds
\* and outcomes both parse as JSON arrays of length 2; a market with a
\* malformed or wrong-length field is skipped without aborting, the markets
\* after it are still examined: without a limit the result is the list of
\* all such markets of the pages served, in order
C17_AddedIffBothPairs ==
  /\ \A i \in 1..Len(dv_markets) :
       /\ DenotesPair(RawAt(dv_markets[i].market_slug).clobTokenIds)
       /\ DenotesPair(RawAt(dv_markets[i].market_slug).outcomes)
  /\ (dv_pc = "returned" /\ dv_max_events = 0) => DiscoveredSlugs = PairSlugs

\* a market was added right after a malformed market of its event, and
\* some served market was skipped
C17_Witness ==
  /\ dv_pc = "returned"
  /\ dv_max_events = 0
  /\ \E i \in 1..Len(dv_markets) :
       LET s == dv_markets[i].market_slug
       IN  /\ s[3] = 2
           /\ ~DenotesPair(RawAt(<<s[1], s[2], 1>>).clobTokenIds)
  /\ Len(PairSlugs) < Len(ServedSlugs)

\* the outcome equals "yes" without regard to case
IsYes(s) == s \in {"yes", "Yes", "YES"}

\* the tokens and the outcomes of the raw market a discovered market is from
TokensOf(info) == RawAt(info.market_slug).clobTokenIds.doc.items

OutcomesOf(info) == RawAt(info.market_slug).outcomes.doc.items

\* C18 as stated: whichever outcome equals "yes", the token at its index is
\* the yes token and the other the no token; with no such outcome index 0
\* is yes and index 1 is no
C18_YesTokenAtEveryYesIndex ==
  \A i \in 1..Len(dv_markets) :
    LET info == dv_markets[i]
        tok  == TokensOf(info)
        out  == OutcomesOf(info)
    IN  /\ \A x \in {1, 2} :
             IsYes(out[x]) => info.yes_token_id = tok[x] /\ info.no_token_id = tok[3 - x]
        /\ (~IsYes(out[1]) /\ ~IsYes(out[2])) =>
             info.yes_token_id = tok[1] /\ info.no_token_id = tok[2]

\* C18: when outcome 0 equals "yes" (any case) token 0 is the yes token and
\* token 1 the no token, also when outcome 1 equals "yes" too; otherwise,
\* when outcome 1 equals "yes", token 1 is the yes token and token 0 the no
\* token; with no such outcome token 0 is yes and token 1 is no
C18_YesTokenAtFirstYesIndex ==
  \A i \in 1..Len(dv_markets) :
    LET info == dv_markets[i]
        tok  == TokensOf(info)
        out  == OutcomesOf(info)
    IN  IF ~IsYes(out[1]) /\ IsYes(out[2])
        THEN info.yes_token_id = tok[2] /\ info.no_token_id = tok[1]
        ELSE info.yes_token_id = tok[1] /\ info.no_token_id = tok[2]

\* discovered: a market whose outcome 1 alone is "yes", with the tokens
\* swapped, and a market whose outcomes both are
C18_Witness ==
  /\ \E i \in 1..Len(dv_markets) :
       /\ ~IsYes(OutcomesOf(dv_markets[i])[1])
       /\ IsYes(OutcomesOf(dv_markets[i])[2])
       /\ dv_markets[i].yes_token_id = "B"
  /\ \E i \in 1..Len(dv_markets) :
       /\ IsYes(OutcomesOf(dv_markets[i])[1])
       /\ IsYes(OutcomesOf(dv_markets[i])[2])

\* the latest GET failed
RequestFailed == dv_requests # <<>> /\ LastResponse.k = "fail"

\* C19: when the request of a page fails, discovery requests no further
\* page, does not raise, and returns the markets collected from the pages
\* before the failing one, in discovery order
C19_FailureReturnsCollected ==
  /\ dv_pc # "raised"
  /\ RequestFailed =>
       /\ dv_pc = "returned"
       /\ \A i \in 1..Len(dv_markets) :
            dv_markets[i].market_slug[1] < Len(dv_requests)
       /\ dv_max_events = 0 => DiscoveredSlugs = PairSlugs

\* the second page failed after markets were collected from the first
C19_Witness ==
  /\ RequestFailed
  /\ Len(dv_requests) = 2
  /\ dv_markets # <<>>
  /\ dv_pc = "returned"

\* --------------------------------------------------- claims on the startup
\* the mode main runs: discovery is run in list, watch and scan mode
ModeOf(args) ==
  CASE args.list_markets          -> "list"
    [] args.test_telegram         -> "test"
    [] args.watch_index # None -> "watch"
    [] OTHER                      -> "scan"

\* C20: when discovery returns no markets (in scan, watch and list mode),
\* or when the watch index is outside 0..len(markets)-1, the process runs
\* no poll cycle and exits with a non-zero status
C20_FatalStartupExitsNonZero ==
  LET mode     == ModeOf(mn_args)
      nothing  == mode \in {"list", "watch", "scan"} /\ mn_found = 0
      badindex == /\ mode = "watch"
                  /\ (mn_args.watch_index.v < 0 \/ mn_args.watch_index.v >= mn_found)
  IN  (mn_args.venv /\ (nothing \/ badindex)) =>
        /\ mn_cycles = 0
        /\ mn_pc # "loop"
        /\ mn_pc = "exited" => mn_exit = "nonzero"

\* ------------------------------------------- claims on the cycle of a scan
\* the processing of market i failed in this cycle: it raised, or it ended
\* without a sum because a fetch gave up or a book was unusable
Failed(i) ==
  \/ sc_task[i].pc = "raised"
  \/ /\ sc_task[i].pc = "done"
     /\ sc_task[i].ret # None
     /\ sc_task[i].ret.sum_flag = None

\* the cycle has left its batches behind
PastGather == sc_pc \in {"select", "alert", "sleep", "exit"}

\* C21: a failure while processing one market (fetches exhausted, book
\* malformed, processing raised) never affects the other markets of the
\* cycle: the cycle is not abandoned, and once it is past its batches every
\* other market that has both token ids has its record in results.
C21_FailureIsolated ==
  \A i \in 1..Len(sc_task) :
    Failed(i) =>
      /\ sc_pc # "raised"
      /\ PastGather =>
           \A j \in 1..Len(sc_task) :
             (j # i /\ ~Falsy(sc_markets[j].yes_token_id)
                    /\ ~Falsy(sc_markets[j].no_token_id))
               => \E k \in 1..Len(sc_results) : sc_results[k].market_slug = j

\* C22: in process_market the yes fetch and the no fetch are both started
\* before either completes, and the metrics are computed and returned only
\* after both have completed, whatever the order in which they complete.
C22_BothFetchesInFlight ==
  \A i \in 1..Len(sc_task) :
    LET t == sc_task[i]
    IN  /\ (t.yes.st = "idle") <=> (t.no.st = "idle")
        /\ t.pc = "created" => t.yes.st = "idle"
        /\ t.pc = "waiting" => (t.yes.st # "idle" /\ t.no.st # "idle")
        /\ (t.pc \in {"done", "raised"} /\ t.yes.st # "idle")
             => (t.yes.st = "done" /\ t.no.st = "done")
        /\ (t.pc = "done" /\ t.ret # None)
             => t.ret = Metrics(sc_markets[i], t.yes.book, t.no.book)

\* C22 witness: one market whose yes fetch has completed while its no fetch
\* is in flight, another whose no fetch completed first, and both waiting
C22_Witness ==
  /\ Len(sc_task) = 2
  /\ sc_task[1].pc = "waiting"
  /\ sc_task[1].yes.st = "done"
  /\ sc_task[1].no.st = "inflight"
  /\ sc_task[2].pc = "waiting"
  /\ sc_task[2].yes.st = "inflight"
  /\ sc_task[2].no.st = "done"

\* the number of the batch a task belongs to
BatchNo(i) == (i - 1) \div batch_size

\* the tasks the current gather has started and not yet handed back
Running ==
  {i \in 1..Len(sc_task) : sc_pc = "gather" /\ i > sc_batch /\ sc_task[i].pc # "created"}

\* the fetch_book calls in flight
FetchesInFlight ==
  {<<i, s>> \in (1..Len(sc_task)) \X {"yes", "no"} : sc_task[i][s].st = "inflight"}

\* C23: in a scan cycle at most 10 markets are being processed at any moment
\* (at most 20 fetches in flight), no market of a later batch starts before
\* every market of the batches before it has completed, and the selection
\* starts only after the results of all batches are collected.
C23_BatchesOfTen ==
  /\ Cardinality(Running) <= 10
  /\ Cardinality({i \in 1..Len(sc_task) : sc_task[i].pc = "waiting"}) <= 10
  /\ Cardinality(FetchesInFlight) <= 20
  /\ \A i, j \in 1..Len(sc_task) :
       (BatchNo(i) < BatchNo(j) /\ sc_task[j].pc # "created") => sc_task[i].pc = "done"
  /\ PastGather =>
       /\ \A i \in 1..Len(sc_task) : sc_task[i].pc = "done"
       /\ sc_results = BatchResults(sc_task, 1, Len(sc_task))

\* C23 witness: eleven markets; the ten of the first batch are done and
\* collected, and the eleventh is being processed alone in the second batch
C23_Witness ==
  /\ Len(sc_task) = 11
  /\ sc_pc = "gather"
  /\ sc_batch = 10
  /\ \A i \in 1..10 : sc_task[i].pc = "done"
  /\ Len(sc_results) = 2
  /\ sc_task[11].pc = "waiting"
  /\ sc_task[11].yes.st = "inflight"

\* the cycle has selected a best market and reported it
Reported == sc_pc \in {"alert", "sleep", "exit"} /\ sc_best # None

\* the summary line the cycle wrote last and the block it printed last
LastLine == sc_file.lines[Len(sc_file.lines)]

LastBlock == sc_stdout[Len(sc_stdout)]

\* m is the smaller of the two notionals when both are defined, else 0
IsExecutable(m, yes_notional, no_notional) ==
  IF yes_notional # None /\ no_notional # None
  THEN /\ m \in {yes_notional, no_notional}
       /\ FloatLe(m, yes_notional)
       /\ FloatLe(m, no_notional)
  ELSE m = FloatOf(Num(0, 0))

\* C24: the executable notional reported for a best market in the pretty
\* output, in the best_market record of the file and in the alert message
\* is the minimum of the yes notional and the no notional when both are
\* defined, and 0 otherwise (the two texts give it to the cent).
C24_ExecutableIsMinimum ==
  Reported =>
    LET y == sc_best.yes_ask_notional_usd
        n == sc_best.no_ask_notional_usd
        amounts == {m \in {y, n, FloatOf(Num(0, 0))} : IsExecutable(m, y, n)}
    IN  /\ LastLine.type = "best_market"
        /\ LastLine.executable_notional_usd \in amounts
        /\ sc_args.pretty => LastBlock.exec_not_str \in {Fmt2(m) : m \in amounts}
        /\ \A k \in 1..Len(sc_alerts) :
             sc_alerts[k].msg.exec_not_str \in {Fmt2(m) : m \in amounts}

\* the value of a finite float, in units of 1/10000
Units(x) == x.hi * 100000 + x.lo

\* the label the three rules give a sum, where they give one
LabelOf(s, lbl) ==
  /\ (s.k = "finf" \/ (s.k = "float" /\ Units(s) > 10001)) => lbl = "GT1"
  /\ (s.k = "float" /\ Units(s) < 9999) => lbl = "LT1"
  /\ (s.k = "float" /\ Units(s) >= 9999 /\ Units(s) <= 10001) => lbl = "EQ1"

\* C25: the label of a sum is GT1 when the sum is strictly greater than
\* 1.0001, LT1 when it is strictly less than 0.9999 and EQ1 for every sum in
\* the closed band [0.9999, 1.0001]; the pretty output, the best_market
\* record of the file and the alert message give the same label.
C25_LabelByBand ==
  Reported =>
    /\ LastLine.type = "best_market"
    /\ LabelOf(sc_best.sum_flag, LastLine.sum_flag)
    /\ sc_args.pretty => LastBlock.flag_lbl = LastLine.sum_flag
    /\ \A k \in 1..Len(sc_alerts) : sc_alerts[k].msg.flag_lbl = LastLine.sum_flag

\* C25 witness: the sum 1.0001, on the upper edge of the band, was labelled
\* EQ1 in the file, in the printed block and in the alert that was sent
C25_Witness ==
  /\ Reported
  /\ sc_best.sum_flag = [k |-> "float", hi |-> 0, lo |-> 10001]
  /\ LastLine.sum_flag = "EQ1"
  /\ Len(sc_stdout) >= 1
  /\ LastBlock.flag_lbl = "EQ1"
  /\ Len(sc_alerts) = 1
  /\ sc_alerts[1].msg.flag_lbl = "EQ1"

\* ------------------------------------------- claims on the outcome labels
\* C26: in every market record of discovery the outcome labels agree with
\* the token assignment: yes_outcome is the outcome at the index whose
\* token became yes_token_id and no_outcome the outcome at the index whose
\* token became no_token_id, also when the tokens are swapped.
C26_LabelsFollowTokens ==
  \A i \in 1..Len(dv_markets) :
    LET info == dv_markets[i]
        tok  == TokensOf(info)
        out  == OutcomesOf(info)
    IN  \E x \in {1, 2} :
          /\ info.yes_token_id = tok[x]
          /\ info.yes_outcome = out[x]
          /\ info.no_token_id = tok[3 - x]
          /\ info.no_outcome = out[3 - x]

\* ---------------------------------------------- claims on the notionals
\* the three notionals of a metrics record are defined
NotionalsDefined(r) ==
  /\ r.yes_ask_notional_usd # None
  /\ r.no_ask_notional_usd # None
  /\ r.both_ask_notional_usd # None

AbsentBidCycle == wt_pc \in {"send", "sleep", "exit", "fatal"} /\ wt_details = None

\* C28: in watch mode a cycle whose best-bid level is absent (fetch given
\* up, bids missing or empty, book malformed) never fires an alert and never
\* changes the cooldown timestamp, for every trigger operator and price,
\* also for < and <= that the placeholder price 0.0 would satisfy; the loop
\* goes on to the next cycle.
C28_AbsentBidNeverAlerts ==
  AbsentBidCycle =>
    /\ ~wt_triggered
    /\ wt_pc \in {"sleep", "exit"}
    /\ ~FiredThisCycle
    /\ wt_last_alert_ts = IF wt_fired = <<>> THEN 0 ELSE wt_fired[Len(wt_fired)].now
    /\ wt_pc = "exit" => wt_args.once
    /\ (wt_pc = "sleep" /\ ~wt_args.once /\ wt_cycle < MaxCycles) => ENABLED WatchSleep

\* C28 witness: the trigger is <= 0.50 with credentials and no cooldown; the
\* first cycle fired at a bid of 0.40 or 0.50, the second found no bid, sent
\* nothing and left the timestamp of the first alert
C28_Witness ==
  /\ wt_args.trigger_op = "<="
  /\ wt_args.credentials
  /\ wt_args.alert_cooldown = 0
  /\ wt_cycle = 2
  /\ wt_pc = "sleep"
  /\ wt_details = None
  /\ Len(wt_fired) = 1
  /\ wt_fired[1].cycle = 1
  /\ wt_last_alert_ts = wt_fired[1].now

====
